---- MODULE Spec2Model ----
(***************************************************************************)
(* A model of the PBFT consensus core of sawtooth-pbft: the node state     *)
(* (src/src/state.rs), the node's event handlers (src/src/node.rs) and the  *)
(* faulty-primary timeout (src/src/timing.rs).  The message log and the     *)
(* handlers module are not part of the source tree at hand; they are        *)
(* modelled after the specification's sections 4.2 to 4.4 and 4.8.          *)
(***************************************************************************)
EXTENDS Integers, Sequences, FiniteSets, TLC

VARIABLES
    node,   \* node id -> the PbftState fields, the message log and what the last event did
    net,    \* the messages broadcast so far by the modelled nodes (SpecNet)
    env,    \* the run's environment: the blocks the host can deliver, the peers that speak
    last    \* the last event: [n |-> node, op |-> handler]

vars == <<node, net, env, last>>

----------------------------------------------------------------------------
(* Bounds of the model.                                                    *)

\* The highest sequence number a node works on.
MaxSeq == 3
\* The highest view a node may enter.
MaxView == 2
\* The longest backlog a node keeps.
MaxBacklog == 2
\* The longest peer list PbftState::new is tried with (SpecState).
MaxPeers == 7
\* The highest head block number PbftState::new is tried with (SpecState).
MaxHead == 2
\* The number of switch_phase calls in a run of SpecState.
MaxCalls == 3

\* The number of votes in the seals handed to the verifier (SpecSeal).
MaxVotes == 3

----------------------------------------------------------------------------
(* Option values: None is the empty sequence, Some(x) a sequence of one.   *)

None == <<>>
Some(x) == <<x>>
IsSome(o) == Len(o) > 0
Unwrap(o) == o[1]

Phases == {"PrePreparing", "Preparing", "Checking", "Committing", "Finished"}

----------------------------------------------------------------------------
(* Data: peers, blocks, seals and messages.                                *)

\* The absent header key of a message that was not received from the network.
NoKey == 0 - 1

\* PbftBlock, the projection of a block the core keeps (pbft_block_from_block).
PbftBlock(block_id, signer_id, block_num, summary) ==
    [block_id |-> block_id, signer_id |-> signer_id, block_num |-> block_num,
     summary |-> summary]

\* PbftBlock::new(): every field at its default.
DefaultBlock == PbftBlock(0, NoKey, 0, 0)

pbft_block_from_block(block) ==
    PbftBlock(block.block_id, block.signer_id, block.block_num, block.summary)

\* A parsed message: its PbftMessageInfo fields, its block, the key that signed
\* the transport header it arrived with (NoKey when it has none: built by
\* ParsedMessage::from_pbft_message or parsed from a node's own bytes), and the
\* seal a ViewChange carries.
Message(msg_type, view, seq_num, signer_id, block, hdr, seal) ==
    [msg_type |-> msg_type, view |-> view, seq_num |-> seq_num,
     signer_id |-> signer_id, block |-> block, hdr |-> hdr, seal |-> seal]

\* PbftSeal::new()
EmptySeal == [previous_id |-> 0, summary |-> 0, votes |-> <<>>]

----------------------------------------------------------------------------
(* src/src/state.rs                                                        *)

\* f as PbftState::new and update_membership compute it:
\* ((peers.len() - 1) / 3) as u64.
fault_bound_mut(peers) == Len(peers) \div 3

fault_bound(peers) == (Len(peers) - 1) \div 3

\* PbftState::new(id, head_block_num, config), with config.peers and
\* config.forced_view_change_period, together with the empty log of
\* PbftNode::new.  An empty peer list makes `len() - 1` overflow: a panic in a
\* debug build; a release build wraps and panics at `config.peers[0]`.  A list
\* with f = 0 panics explicitly.  After a panic there is no state: the record
\* then only says that the constructor panicked.
PbftState_new(id, head_block_num, peers, period) ==
    [ panicked |-> Len(peers) = 0 \/ fault_bound(peers) = 0,
      id |-> id,
      seq_num |-> head_block_num + 1,
      view |-> 0,
      phase |-> "PrePreparing",
      role |-> IF Len(peers) > 0 /\ peers[1] = id THEN "Primary" ELSE "Secondary",
      mode |-> "Normal",
      f |-> fault_bound(peers),
      peer_ids |-> peers,
      faulty_primary_timeout |-> "Inactive",
      forced_view_change_period |-> period,
      working_block |-> None,
      \* PbftLog
      messages |-> {},
      first_block_new |-> <<>>,
      backlog |-> <<>>,
      seals |-> <<>>,
      \* what the last event did: the host calls, the broadcasts, the phases
      \* the node went through, the result and the value returned; and what the
      \* host has been asked so far: the blocks to check, the blocks to commit; and
      \* the blocks on_block_commit has processed, each with its seq_num
      calls |-> <<>>,
      sent |-> <<>>,
      phases |-> <<>>,
      result |-> "Ok",
      ret |-> None,
      payload |-> None,
      checks |-> {},
      commits |-> {},
      committed |-> {} ]

check_msg_type(s) ==
    CASE s.phase = "PrePreparing" -> "PrePrepare"
      [] s.phase = "Preparing" -> "Prepare"
      [] s.phase = "Checking" -> "Prepare"
      [] s.phase = "Committing" -> "Commit"
      [] s.phase = "Finished" -> "Unset"

\* peer_ids[view % len]: sequences are 1-based here, vectors 0-based there.
primary_of(peers, view) == peers[(view % Len(peers)) + 1]

get_primary_id(s) == primary_of(s.peer_ids, s.view)

is_primary(s) == s.role = "Primary"

upgrade_role(s) == [s EXCEPT !.role = "Primary"]

downgrade_role(s) == [s EXCEPT !.role = "Secondary"]

next_phase(p) ==
    CASE p = "PrePreparing" -> "Preparing"
      [] p = "Preparing" -> "Checking"
      [] p = "Checking" -> "Committing"
      [] p = "Committing" -> "Finished"
      [] p = "Finished" -> "PrePreparing"

PhaseOrd(p) ==
    CASE p = "PrePreparing" -> 0
      [] p = "Preparing" -> 1
      [] p = "Checking" -> 2
      [] p = "Committing" -> 3
      [] p = "Finished" -> 4

\* The phase assignment, with the phase noted in the event's record.
set_phase(s, p) == [s EXCEPT !.phase = p, !.phases = Append(@, p)]

\* A switch_phase that compares with the derived PartialOrd of PbftPhase and so
\* lets the phase move forward by any number of steps.
switch_phase_mut(s, desired_phase) ==
    IF PhaseOrd(desired_phase) > PhaseOrd(s.phase) \/ desired_phase = next_phase(s.phase)
    THEN [set_phase(s, desired_phase) EXCEPT !.ret = Some(desired_phase)]
    ELSE [s EXCEPT !.ret = None]

\* switch_phase: the state after the call, the value returned in `ret`.
switch_phase(s, desired_phase) ==
    IF desired_phase = next_phase(s.phase)
    THEN [set_phase(s, desired_phase) EXCEPT !.ret = Some(desired_phase)]
    ELSE [s EXCEPT !.ret = None]

at_forced_view_change_mut(s) ==
    s.seq_num > 1 /\ (s.seq_num - 1) % s.forced_view_change_period = 0

at_forced_view_change(s) ==
    s.seq_num > 0 /\ s.seq_num % s.forced_view_change_period = 0

\* A discard that leaves the mode as it is.
discard_current_block_mut(s) ==
    [set_phase(s, "PrePreparing") EXCEPT !.working_block = None,
                                         !.faulty_primary_timeout = "Active"]

discard_current_block(s) ==
    [set_phase(s, "PrePreparing") EXCEPT !.working_block = None,
                                         !.mode = "Normal",
                                         !.faulty_primary_timeout = "Active"]

----------------------------------------------------------------------------
(* The message log (specification, section 4.2).                           *)

\* add_message: store m; an exact duplicate changes nothing.  The log is
\* ordered, and the only order ever read is which BlockNew of a sequence number
\* came first (get_messages_of_type_seq(..).first() in on_block_commit), so the
\* model keeps the messages as a set and the first BlockNew of each sequence
\* number beside it.
add_message(s, m) ==
    [s EXCEPT !.messages = @ \cup {m},
              !.first_block_new =
                  IF m.msg_type = "BlockNew" /\ m.seq_num \notin DOMAIN @
                  THEN (m.seq_num :> m) @@ @
                  ELSE @]

\* The BlockNew messages of a sequence number hold the first to arrive at
\* their head: here, Some(first) or None.
first_block_new_of_seq(s, seq_num) ==
    IF seq_num \in DOMAIN s.first_block_new
    THEN Some(s.first_block_new[seq_num])
    ELSE None

get_messages_of_type_seq(s, msg_type, seq_num) ==
    {x \in s.messages : x.msg_type = msg_type /\ x.seq_num = seq_num}

\* The signers of the messages of a type that match m on (view, seq_num) and,
\* if exact_match, on the block id.
matching_signers(msgs, msg_type, m, exact_match) ==
    {x.signer_id : x \in {y \in msgs :
        /\ y.msg_type = msg_type
        /\ y.view = m.view
        /\ y.seq_num = m.seq_num
        /\ (exact_match => y.block.block_id = m.block.block_id)}}

log_has_required_msgs(msgs, msg_type, m, exact_match, count) ==
    Cardinality(matching_signers(msgs, msg_type, m, exact_match)) >= count

\* The PrePrepare messages logged for the (view, seq_num) of info.
pre_prepares_for(msgs, info) ==
    {x \in msgs : x.msg_type = "PrePrepare" /\ x.view = info.view
                    /\ x.seq_num = info.seq_num}

\* A PrePrepare pp is prepared: at least 2f Prepare messages for its (view,
\* seq_num, block id), of distinct signers other than the primary that sent pp.
prepared_by(msgs, pp, f) ==
    Cardinality(matching_signers(msgs, "Prepare", pp, TRUE) \ {pp.signer_id}) >= 2 * f

check_prepared(msgs, info, f) ==
    \E pp \in pre_prepares_for(msgs, info) : prepared_by(msgs, pp, f)

check_committable(msgs, info, f) ==
    \E pp \in pre_prepares_for(msgs, info) :
        /\ prepared_by(msgs, pp, f)
        /\ log_has_required_msgs(msgs, "Commit", pp, TRUE, 2 * f + 1)

push_backlog(s, m) == [s EXCEPT !.backlog = Append(@, m)]

add_consensus_seal(s, block_id, seq_num, seal) ==
    [s EXCEPT !.seals = (seq_num :> seal) @@ @]

\* Messages and seals older than the sequence number before the given one
\* are discarded.
garbage_collect(s, seq_num, block_id) ==
    [s EXCEPT
        !.messages = {x \in @ : x.seq_num >= seq_num - 1},
        !.first_block_new = [k \in {j \in DOMAIN @ : j >= seq_num - 1} |-> @[k]],
        !.seals = [k \in {j \in DOMAIN @ : j >= seq_num - 1} |-> @[k]]]

----------------------------------------------------------------------------
(* Host calls and results.                                                 *)

\* A call of the host service made by the event at hand.
service_call(s, name, id) ==
    [s EXCEPT !.calls = Append(@, [call |-> name, id |-> id])]

err(s, e) == [s EXCEPT !.result = e]

IsOk(s) == s.result = "Ok" /\ ~s.panicked

panic(s) == [s EXCEPT !.panicked = TRUE, !.result = "panic"]

\* The state a handler starts from: nothing called, nothing sent yet.
begin(s) ==
    [s EXCEPT !.calls = <<>>, !.sent = <<>>, !.phases = <<>>, !.result = "Ok",
              !.ret = None, !.payload = None]

----------------------------------------------------------------------------
(* The handlers module (specification, sections 4.3, 4.4 and 4.8).         *)

\* PrePrepare acceptance: from the primary of the message's view, its sequence
\* number not bound to another block by a logged PrePrepare, and a BlockNew for
\* its block in the log.  An accepted message is logged and the phase moves
\* PrePreparing -> Preparing.
handlers_pre_prepare(s, m) ==
    IF m.signer_id # primary_of(s.peer_ids, m.view)
    THEN err(s, "NotFromPrimary")
    ELSE IF \E x \in s.messages :
                /\ x.msg_type = "PrePrepare"
                /\ x.seq_num = m.seq_num
                /\ x.block.block_id # m.block.block_id
    THEN err(s, "MismatchedBlocks")
    ELSE IF ~\E x \in get_messages_of_type_seq(s, "BlockNew", m.seq_num) :
                x.block = m.block
    THEN err(s, "NoBlockNew")
    ELSE switch_phase(add_message(s, m), "Preparing")

\* The commit handler: ask the host to commit the block of the message, then
\* Committing -> Finished.
handlers_commit(s, m) ==
    switch_phase(
        [service_call(s, "commit_block", m.block.block_id)
            EXCEPT !.commits = @ \cup {<<s.seq_num, m.block.block_id>>}],
        "Finished")

\* The role a node has in its current view.
derive_role(s) ==
    IF get_primary_id(s) = s.id THEN upgrade_role(s) ELSE downgrade_role(s)

\* Completing a view change: with 2f + 1 ViewChange messages of distinct
\* signers matching m, adopt m's view, take the role of that view and discard
\* the current block.
handlers_view_change(s, m) ==
    IF log_has_required_msgs(s.messages, "ViewChange", m, FALSE, 2 * s.f + 1)
    THEN discard_current_block(derive_role([s EXCEPT !.view = m.view]))
    ELSE s

\* The forced view change: the same transition, into the next view.
handlers_force_view_change(s) ==
    discard_current_block(derive_role([s EXCEPT !.view = s.view + 1]))

----------------------------------------------------------------------------
(* src/src/node.rs                                                         *)

\* PbftMessageType::is_multicast
is_multicast(msg_type) == msg_type \in {"PrePrepare", "Prepare", "Commit"}

RECURSIVE on_peer_message(_, _)
RECURSIVE broadcast_message(_, _)

\* _broadcast_message (not(test)): to the peers, then to the node itself: the
\* bytes are parsed again, which leaves the node's own copy without the
\* transport header the peers' copies come with.
broadcast_message(s, m) ==
    on_peer_message([s EXCEPT !.sent = Append(@, [m EXCEPT !.hdr = s.id])], m)

\* A broadcast of whatever type, whatever the phase.
broadcast_pbft_message_mut(s, seq_num, msg_type, block) ==
    broadcast_message(s, Message(msg_type, s.view, seq_num, s.id, block, NoKey, None))

\* _broadcast_pbft_message
broadcast_pbft_message(s, seq_num, msg_type, block) ==
    IF is_multicast(msg_type) /\ msg_type # check_msg_type(s)
    THEN s
    ELSE broadcast_message(s, Message(msg_type, s.view, seq_num, s.id, block, NoKey, None))

broadcast_pre_prepare(s, m) ==
    broadcast_pbft_message(s, m.seq_num, "Prepare", m.block)

check_blocks_if_not_checking(s, m) ==
    IF s.phase # "Checking"
    THEN [service_call(switch_phase(s, "Checking"), "check_blocks", m.block.block_id)
             EXCEPT !.checks = @ \cup {m.block.block_id}]
    ELSE s

\* A commit that does not look at the phase.
commit_block_if_committing_mut(s, m) == handlers_commit(s, m)

commit_block_if_committing(s, m) ==
    IF s.phase = "Committing" THEN handlers_commit(s, m) ELSE s

get_consensus_seal(s, seq_num) ==
    IF seq_num \in DOMAIN s.seals THEN Some(s.seals[seq_num]) ELSE None

\* propose_view_change: the mode is set before the seal is looked up, so a
\* missing seal returns the error with the mode already ViewChanging.
propose_view_change(s) ==
    IF s.mode = "ViewChanging"
    THEN s
    ELSE LET s1 == [s EXCEPT !.mode = "ViewChanging"]
             seal == get_consensus_seal(s1, s1.seq_num - 1)
         IN  IF ~IsSome(seal)
             THEN err(s1, "InternalError")
             ELSE broadcast_message(s1,
                      Message("ViewChange", s1.view + 1, s1.seq_num - 1, s1.id,
                              DefaultBlock, NoKey, seal))

\* A bandwagon rule that asks for f ViewChange messages.
propose_view_change_if_enough_messages_mut(s, m) ==
    IF s.mode # "ViewChanging"
    THEN IF /\ log_has_required_msgs(s.messages, "ViewChange", m, FALSE, s.f)
            /\ m.view > s.view
         THEN <<propose_view_change(s), FALSE>>
         ELSE <<s, TRUE>>
    ELSE <<s, FALSE>>

\* propose_view_change_if_enough_messages: <<the state after, the value
\* returned>>; an error of propose_view_change is in the state's result.
propose_view_change_if_enough_messages(s, m) ==
    IF s.mode # "ViewChanging"
    THEN IF /\ log_has_required_msgs(s.messages, "ViewChange", m, FALSE, s.f + 1)
            /\ m.view > s.view
         THEN <<propose_view_change(s), FALSE>>
         ELSE <<s, TRUE>>
    ELSE <<s, FALSE>>

\* A node that puts every PrePrepare it does not accept on the backlog.
on_peer_message_backlog_mut(s, m) ==
    CASE m.msg_type = "PrePrepare" ->
            LET r == handlers_pre_prepare(s, m)
            IN  IF r.result = "Ok" THEN broadcast_pre_prepare(r, m)
                ELSE push_backlog(s, m)
      [] m.msg_type = "Prepare" ->
            LET s1 == add_message(s, m)
            IN  IF m.seq_num = s1.seq_num /\ check_prepared(s1.messages, m, s1.f)
                THEN check_blocks_if_not_checking(s1, m)
                ELSE s1
      [] m.msg_type = "Commit" ->
            LET s1 == add_message(s, m)
            IN  IF m.seq_num = s1.seq_num /\ check_committable(s1.messages, m, s1.f)
                THEN commit_block_if_committing(s1, m)
                ELSE s1
      [] m.msg_type = "ViewChange" ->
            LET s1 == add_message(s, m)
                r == propose_view_change_if_enough_messages(s1, m)
            IN  IF ~IsOk(r[1]) THEN r[1]
                ELSE IF r[2] THEN r[1]
                ELSE handlers_view_change(r[1], m)
      [] OTHER -> s

\* A node that counts the Prepare messages, not their signers.
on_peer_message_mut(s, m) ==
    CASE m.msg_type = "PrePrepare" ->
            LET r == handlers_pre_prepare(s, m)
            IN  IF r.result = "Ok" THEN broadcast_pre_prepare(r, m)
                ELSE IF r.result = "NoBlockNew" THEN push_backlog(s, m)
                ELSE r
      [] m.msg_type = "Prepare" ->
            LET s1 == add_message(s, m)
            IN  IF /\ m.seq_num = s1.seq_num
                   /\ pre_prepares_for(s1.messages, m) # {}
                   /\ Cardinality(get_messages_of_type_seq(s1, "Prepare", m.seq_num))
                         >= 2 * s1.f + 1
                THEN check_blocks_if_not_checking(s1, m)
                ELSE s1
      [] m.msg_type = "Commit" ->
            LET s1 == add_message(s, m)
            IN  IF m.seq_num = s1.seq_num /\ check_committable(s1.messages, m, s1.f)
                THEN commit_block_if_committing(s1, m)
                ELSE s1
      [] m.msg_type = "ViewChange" ->
            LET s1 == add_message(s, m)
                r == propose_view_change_if_enough_messages(s1, m)
            IN  IF ~IsOk(r[1]) THEN r[1]
                ELSE IF r[2] THEN r[1]
                ELSE handlers_view_change(r[1], m)
      [] OTHER -> s

on_peer_message(s, m) ==
    CASE m.msg_type = "PrePrepare" ->
            LET r == handlers_pre_prepare(s, m)
            IN  IF r.result = "Ok" THEN broadcast_pre_prepare(r, m)
                ELSE IF r.result = "NoBlockNew" THEN push_backlog(s, m)
                ELSE r
      [] m.msg_type = "Prepare" ->
            LET s1 == add_message(s, m)
            IN  IF m.seq_num = s1.seq_num /\ check_prepared(s1.messages, m, s1.f)
                THEN check_blocks_if_not_checking(s1, m)
                ELSE s1
      [] m.msg_type = "Commit" ->
            LET s1 == add_message(s, m)
            IN  IF m.seq_num = s1.seq_num /\ check_committable(s1.messages, m, s1.f)
                THEN commit_block_if_committing(s1, m)
                ELSE s1
      [] m.msg_type = "ViewChange" ->
            LET s1 == add_message(s, m)
                r == propose_view_change_if_enough_messages(s1, m)
            IN  IF ~IsOk(r[1]) THEN r[1]
                ELSE IF r[2] THEN r[1]
                ELSE handlers_view_change(r[1], m)
      [] OTHER -> s

----------------------------------------------------------------------------
(* src/src/timing.rs: the faulty-primary timeout, without the clock: whether *)
(* more than the duration has passed since it was started is up to the      *)
(* environment.                                                            *)

timeout_start(s) == [s EXCEPT !.faulty_primary_timeout = "Active"]

timeout_stop(s) == [s EXCEPT !.faulty_primary_timeout = "Inactive"]

\* is_expired, `elapsed` saying whether now - start > duration.
timeout_is_expired(s, elapsed) ==
    IF s.faulty_primary_timeout = "Active" /\ elapsed
    THEN [s EXCEPT !.faulty_primary_timeout = "Expired"]
    ELSE s

----------------------------------------------------------------------------
(* The chain the host knows: the peers on chain at each block.             *)

\* The peer list the nodes are configured with (mock_config(4)).
DefaultPeers == <<0, 1, 2, 3>>

\* A peer list that grows the network to f = 2, and one that shrinks it to
\* f = 0.
GrownPeers == <<0, 1, 2, 3, 4, 5, 6>>
ShrunkPeers == <<0, 1, 2>>

\* Block ids are 10 * block_num + variant.  Variant 1 of a block carries a
\* settings change that grows the peer list, variant 2 one that shrinks it,
\* variant 3 one that empties it.
get_peers_from_settings(block_id) ==
    CASE block_id % 10 = 1 -> GrownPeers
      [] block_id % 10 = 2 -> ShrunkPeers
      [] block_id % 10 = 3 -> <<>>
      [] OTHER -> DefaultPeers

ToSet(q) == {q[i] : i \in DOMAIN q}

----------------------------------------------------------------------------
(* src/src/node.rs: seals, catch-up and the host's events.                 *)

\* verify_consensus_vote: Some(the signer id of the wrapped message), or None
\* when the vote is refused.
verify_consensus_vote(vote, seal) ==
    IF vote.block.block_id # seal.previous_id THEN None
    ELSE IF ~vote.sig_ok THEN None
    ELSE IF ~vote.sha_ok THEN None
    ELSE Some(vote.signer_id)

\* A verifier that counts the votes, not the voters.
verify_consensus_seal_mut(s, block) ==
    IF block.block_num < 2 THEN [status |-> "None", seal |-> EmptySeal]
    ELSE IF ~IsSome(block.payload) THEN [status |-> "Err", seal |-> EmptySeal]
    ELSE
    LET seal == Unwrap(block.payload)
        votes == seal.votes
        voter_ids == {Unwrap(verify_consensus_vote(votes[i], seal)) :
                        i \in {j \in DOMAIN votes :
                                 IsSome(verify_consensus_vote(votes[j], seal))}}
        peer_ids == ToSet(get_peers_from_settings(block.previous_id)) \ {block.signer_id}
    IN  IF seal.previous_id # block.previous_id THEN [status |-> "Err", seal |-> seal]
        ELSE IF seal.summary # block.summary THEN [status |-> "Err", seal |-> seal]
        ELSE IF \E i \in DOMAIN votes : ~IsSome(verify_consensus_vote(votes[i], seal))
             THEN [status |-> "Err", seal |-> seal]
        ELSE IF ~(voter_ids \subseteq peer_ids) THEN [status |-> "Err", seal |-> seal]
        ELSE IF Len(votes) < 2 * s.f THEN [status |-> "Err", seal |-> seal]
        ELSE [status |-> "Some", seal |-> seal]

\* verify_consensus_seal: "None" for a block below 2, "Err", or "Some" with the
\* seal of the payload.
verify_consensus_seal(s, block) ==
    IF block.block_num < 2 THEN [status |-> "None", seal |-> EmptySeal]
    ELSE IF ~IsSome(block.payload) THEN [status |-> "Err", seal |-> EmptySeal]
    ELSE
    LET seal == Unwrap(block.payload)
        votes == seal.votes
        voter_ids == {Unwrap(verify_consensus_vote(votes[i], seal)) :
                        i \in {j \in DOMAIN votes :
                                 IsSome(verify_consensus_vote(votes[j], seal))}}
        peer_ids == ToSet(get_peers_from_settings(block.previous_id)) \ {block.signer_id}
    IN  IF seal.previous_id # block.previous_id THEN [status |-> "Err", seal |-> seal]
        ELSE IF seal.summary # block.summary THEN [status |-> "Err", seal |-> seal]
        ELSE IF \E i \in DOMAIN votes : ~IsSome(verify_consensus_vote(votes[i], seal))
             THEN [status |-> "Err", seal |-> seal]
        ELSE IF ~(voter_ids \subseteq peer_ids) THEN [status |-> "Err", seal |-> seal]
        ELSE IF Cardinality(voter_ids) < 2 * s.f THEN [status |-> "Err", seal |-> seal]
        ELSE [status |-> "Some", seal |-> seal]

\* An update_membership that adopts the new list and keeps the old f.
update_membership_mut(s, block_id) ==
    LET peers == get_peers_from_settings(block_id)
    IN  IF ToSet(peers) # ToSet(s.peer_ids)
        THEN <<[s EXCEPT !.peer_ids = peers], TRUE>>
        ELSE <<s, FALSE>>

\* update_membership: <<the state after, whether the peers changed>>.  With an
\* empty list `len() - 1` overflows: a debug build panics there; a release
\* build wraps, returns true and panics at `view % 0` in the view change that
\* follows.  Both builds panic within the same on_block_commit.
update_membership(s, block_id) ==
    LET peers == get_peers_from_settings(block_id)
    IN  IF ToSet(peers) # ToSet(s.peer_ids)
        THEN IF Len(peers) = 0 \/ fault_bound(peers) = 0
             THEN <<panic([s EXCEPT !.peer_ids = peers]), TRUE>>
             ELSE <<[s EXCEPT !.peer_ids = peers, !.f = fault_bound(peers)], TRUE>>
        ELSE <<s, FALSE>>

force_view_change(s) == handlers_force_view_change(s)

\* on_block_commit acts on the id of the working block in phase Finished.
is_working_block(s, block_id) ==
    IsSome(s.working_block) /\ Unwrap(s.working_block).block_id = block_id

commit_acts_mut(s, block_id) ==
    ~(s.phase # "Finished" /\ ~is_working_block(s, block_id))

commit_acts(s, block_id) ==
    ~(s.phase # "Finished" \/ ~is_working_block(s, block_id))

\* A state update that leaves the sequence number where it is when no block
\* is queued for the next one.
ready_for_next_block_seq_mut(s) ==
    LET s1 == switch_phase(s, "PrePreparing")
        next_block == first_block_new_of_seq(s1, s1.seq_num + 1)
    IN  IF IsSome(next_block)
        THEN [s1 EXCEPT !.seq_num = @ + 1,
                        !.working_block = Some(Unwrap(next_block).block)]
        ELSE [s1 EXCEPT !.working_block = None]

\* A state update that keeps the committed block as the working block when no
\* block is queued for the next sequence number.
ready_for_next_block_keep_mut(s) ==
    LET s1 == switch_phase(s, "PrePreparing")
        s2 == [s1 EXCEPT !.seq_num = @ + 1]
        next_block == first_block_new_of_seq(s2, s2.seq_num)
    IN  [s2 EXCEPT !.working_block =
            IF IsSome(next_block) THEN Some(Unwrap(next_block).block) ELSE @]

\* A state update that skips a sequence number.
ready_for_next_block_skip_mut(s) ==
    LET s1 == switch_phase(s, "PrePreparing")
        s2 == [s1 EXCEPT !.seq_num = @ + 2]
        next_block == first_block_new_of_seq(s2, s2.seq_num)
    IN  [s2 EXCEPT !.working_block =
            IF IsSome(next_block) THEN Some(Unwrap(next_block).block) ELSE None]

\* "Update state to be ready for next block": the phase, the sequence number
\* and the working block, which is the block of the first BlockNew logged for
\* the new sequence number, if any.
ready_for_next_block(s) ==
    LET s1 == switch_phase(s, "PrePreparing")
        s2 == [s1 EXCEPT !.seq_num = @ + 1]
        next_block == first_block_new_of_seq(s2, s2.seq_num)
    IN  [s2 EXCEPT !.working_block =
            IF IsSome(next_block) THEN Some(Unwrap(next_block).block) ELSE None]

\* on_block_commit
on_block_commit(s, block_id) ==
    IF ~commit_acts(s, block_id) THEN s
    ELSE
    LET s3 == [ready_for_next_block(s)
                  EXCEPT !.committed = @ \cup {<<s.seq_num, block_id>>}]
        um == update_membership(s3, block_id)
        s4 == IF at_forced_view_change(s3) THEN force_view_change(s3)
              ELSE IF um[1].panicked THEN um[1]
              ELSE IF um[2] THEN force_view_change(um[1])
              ELSE um[1]
        s5 == garbage_collect(s4, s4.seq_num, block_id)
        s6 == timeout_start(s5)
    IN
    IF s4.panicked THEN s4
    ELSE IF is_primary(s6) /\ ~IsSome(s6.working_block)
         THEN service_call(s6, "initialize_block", block_id)
         ELSE s6

\* The messages catch-up parses out of a seal's votes
\* (ParsedMessage::from_pbft_message: no header).
vote_message(v) ==
    Message(v.msg_type, v.view, v.seq_num, v.signer_id, v.block, NoKey, None)

RECURSIVE add_messages(_, _, _)
add_messages(s, votes, i) ==
    IF i > Len(votes) THEN s
    ELSE add_messages(add_message(s, vote_message(votes[i])), votes, i + 1)

\* A catch-up that takes any next block, whatever it extends.
catchup_mut(s, block) ==
    IF ~IsSome(s.working_block) THEN err(s, "NoWorkingBlock")
    ELSE
    LET votes == Unwrap(block.payload).votes
        first == vote_message(votes[1])
        s1 == IF first.view > s.view THEN [s EXCEPT !.view = first.view] ELSE s
        s2 == add_messages(s1, votes, 1)
        s3 == set_phase(s2, "Committing")
        s4 == handlers_commit(s3, [first EXCEPT !.msg_type = "Commit"])
    IN  on_block_commit(s4, first.block.block_id)

\* catchup.  It is called once the seal of the block has passed
\* verify_consensus_seal, so the payload parses and holds a vote.
catchup(s, block) ==
    IF ~IsSome(s.working_block) THEN err(s, "NoWorkingBlock")
    ELSE IF \/ block.block_num # Unwrap(s.working_block).block_num + 1
            \/ block.previous_id # Unwrap(s.working_block).block_id
    THEN err(s, "BlockMismatch")
    ELSE
    LET votes == Unwrap(block.payload).votes
        first == vote_message(votes[1])
        s1 == IF first.view > s.view THEN [s EXCEPT !.view = first.view] ELSE s
        s2 == add_messages(s1, votes, 1)
        s3 == set_phase(s2, "Committing")
        s4 == handlers_commit(s3, [first EXCEPT !.msg_type = "Commit"])
    IN  on_block_commit(s4, first.block.block_id)

\* The end of on_block_new, with the BlockNew message msg of the block
\* logged: only a block beyond the node's sequence number is left at that.
accept_block_mut(s, block, msg) ==
    IF block.block_num = s.seq_num + 1 /\ s.phase # "Finished"
    THEN catchup(s, block)
    ELSE IF block.block_num >= s.seq_num
    THEN LET s3 == [s EXCEPT !.working_block = Some(msg.block)]
         IN  IF is_primary(s3)
             THEN broadcast_pbft_message(s3, s3.seq_num, "PrePrepare", msg.block)
             ELSE s3
    ELSE s

\* The end of on_block_new: catch up with a block for the next sequence
\* number, or work on the block for this one, as primary with a PrePrepare.
accept_block(s, block, msg) ==
    IF block.block_num = s.seq_num + 1 /\ s.phase # "Finished"
    THEN catchup(s, block)
    ELSE IF block.block_num = s.seq_num
    THEN LET s3 == [s EXCEPT !.working_block = Some(msg.block)]
         IN  IF is_primary(s3)
             THEN broadcast_pbft_message(s3, s3.seq_num, "PrePrepare", msg.block)
             ELSE s3
    ELSE s

\* An on_block_new that verifies the seal of a stale block too.
on_block_new_stale_mut(s0, block) ==
    LET s == begin(s0)
        v == verify_consensus_seal(s, block)
        s1 == IF v.status = "Some"
              THEN add_consensus_seal(s, block.block_id, s.seq_num, v.seal)
              ELSE s
        msg == Message("BlockNew", s.view, block.block_num, s.id,
                       pbft_block_from_block(block), NoKey, None)
    IN
    IF v.status = "Err"
    THEN LET r == propose_view_change(service_call(s, "fail_block", block.block_id))
         IN  IF IsOk(r) THEN err(r, "InternalError(seal)") ELSE r
    ELSE IF block.block_num < s.seq_num THEN s
    ELSE accept_block(add_message(s1, msg), block, msg)

\* on_block_new
on_block_new(s0, block) ==
    LET s == begin(s0)
        v == verify_consensus_seal(s, block)
        s1 == IF v.status = "Some"
              THEN add_consensus_seal(s, block.block_id, s.seq_num, v.seal)
              ELSE s
        msg == Message("BlockNew", s.view, block.block_num, s.id,
                       pbft_block_from_block(block), NoKey, None)
    IN
    IF block.block_num < s.seq_num THEN s
    ELSE IF v.status = "Err"
    THEN LET r == propose_view_change(service_call(s, "fail_block", block.block_id))
         IN  IF IsOk(r) THEN err(r, "InternalError(seal)") ELSE r
    ELSE accept_block(add_message(s1, msg), block, msg)

\* An on_block_valid that sends the Commit from the phase it is in.
on_block_valid_mut(s0, block_id) ==
    LET s == begin(s0)
    IN  IF ~IsSome(s.working_block) THEN err(s, "NoWorkingBlock")
        ELSE IF Unwrap(s.working_block).block_id # block_id
        THEN err(s, "NotReadyForMessage")
        ELSE broadcast_pbft_message(s, s.seq_num, "Commit", Unwrap(s.working_block))

\* An on_block_valid that takes any id for the working block's.
on_block_valid_id_mut(s0, block_id) ==
    LET s == begin(s0)
    IN  IF ~IsSome(s.working_block) THEN err(s, "NoWorkingBlock")
        ELSE broadcast_pbft_message(switch_phase(s, "Committing"), s.seq_num,
                                    "Commit", Unwrap(s.working_block))

\* on_block_valid
on_block_valid(s0, block_id) ==
    LET s == begin(s0)
    IN  IF ~IsSome(s.working_block) THEN err(s, "NoWorkingBlock")
        ELSE IF Unwrap(s.working_block).block_id # block_id
        THEN err(s, "NotReadyForMessage")
        ELSE broadcast_pbft_message(switch_phase(s, "Committing"), s.seq_num,
                                    "Commit", Unwrap(s.working_block))

\* A retry_backlog that takes the newest message of the backlog.
retry_backlog_mut(s0) ==
    LET s == begin(s0)
        k == Len(s.backlog)
    IN  IF k > 0
        THEN on_peer_message([s EXCEPT !.backlog = SubSeq(@, 1, k - 1)], s.backlog[k])
        ELSE s

\* retry_backlog
retry_backlog(s0) ==
    LET s == begin(s0)
    IN  IF Len(s.backlog) > 0
        THEN on_peer_message([s EXCEPT !.backlog = Tail(@)], Head(s.backlog))
        ELSE s

----------------------------------------------------------------------------
(* The environment of one node: the blocks the host delivers and the       *)
(* messages the peers send.                                                *)

Vote(signer_id, view, seq_num, block, key) ==
    [msg_type |-> "Commit", signer_id |-> signer_id, view |-> view,
     seq_num |-> seq_num, block |-> block, key |-> key,
     sig_ok |-> TRUE, sha_ok |-> TRUE]

Block(block_id, previous_id, signer_id, block_num, payload, summary) ==
    [block_id |-> block_id, previous_id |-> previous_id, signer_id |-> signer_id,
     block_num |-> block_num, payload |-> payload, summary |-> summary]

\* The seal a block carries for the block `prev` before it: Commit votes of the
\* peers 2 and 3, each under its own key, cast in the given view.
SealFor(prev, summary, view) ==
    [previous_id |-> prev.block_id, summary |-> summary,
     votes |-> <<Vote(2, view, prev.block_num, prev, 2),
                 Vote(3, view, prev.block_num, prev, 3)>>]

\* The block of number k and variant v published by peer 0 on top of the block
\* with id previous_id (variant pv of number k - 1); from block 2 on it carries
\* a seal for that block, whose votes were cast in view k - 2.
ChainBlock(k, v, pv) ==
    LET prev_id == IF k = 1 THEN 0 ELSE 10 * (k - 1) + pv
        prev == PbftBlock(prev_id, 0, k - 1, k - 1)
    IN  Block(10 * k + v, prev_id, 0, k,
              IF k < 2 THEN None ELSE Some(SealFor(prev, k, k - 2)), k)

\* A block of number k >= 2 with an empty payload.
UnsealedBlock(k) == Block(10 * k + 4, 10 * (k - 1), 0, k, None, k)

\* The environments a run of Spec is tried in, each a small world: the blocks
\* the host can deliver, the ids of the blocks the peers vote on, the peers
\* whose Prepare and Commit messages reach the node, the peers whose ViewChange
\* messages do, and the configured forced_view_change_period.
Environment(name, blocks, voted, voters, changers, period) ==
    [name |-> name, blocks |-> blocks, voted |-> voted, voters |-> voters,
     changers |-> changers, period |-> period, stale |-> FALSE, copies |-> {}]

\* The environment e with peers that also send ViewChange messages for the
\* view the node is in already.
Stale(e) == [e EXCEPT !.stale = TRUE]

\* The environment e in which the Prepare and Commit messages of the peers in
\* c arrive a second time, relayed by peer 3 in an envelope of its own.
Copies(e, c) == [e EXCEPT !.copies = c]

MainChain(n) == {ChainBlock(k, 0, 0) : k \in 1..n}

Environments ==
    { \* one block voted through the three phases, its successor at hand
      Environment("cycle", MainChain(2), {10}, {0, 2}, {}, 3),
      \* the chain committed block after block by catch-up, rotation due at 2
      Environment("rotation", MainChain(MaxSeq), {}, {}, {}, 2),
      \* the same with rotation due at 3, and a block without a seal
      Environment("catchup", MainChain(MaxSeq) \cup {UnsealedBlock(2)}, {}, {}, {}, 3),
      \* view changes proposed by peers at sequence numbers 1 and 2
      Environment("viewchange", MainChain(2), {}, {}, {0, 2, 3}, 3),
      \* a view change short of its quorum while a block is voted on
      Environment("bandwagon", MainChain(1), {10}, {0}, {0, 2}, 3),
      \* view changes with late ViewChange messages for the current view
      Stale(Environment("stale", MainChain(2), {}, {}, {0, 2}, 3)),
      \* a block voted on with the votes of peer 0 delivered twice
      Copies(Environment("duplicates", MainChain(1), {10}, {0, 2}, {}, 3), {0}),
      \* two blocks competing for sequence number 1, and two for sequence
      \* number 2 on top of the first of them
      Environment("late", {ChainBlock(1, 0, 0), ChainBlock(1, 5, 0),
                           ChainBlock(2, 0, 0), ChainBlock(2, 5, 0)}, {}, {}, {}, 3),
      \* two blocks competing for sequence number 1
      Environment("fork", {ChainBlock(1, 0, 0), ChainBlock(1, 5, 0)}, {10, 15}, {0}, {}, 3),
      \* block 1 grows the peers on chain where a rotation is due
      Environment("turnover", {ChainBlock(1, 1, 0), ChainBlock(2, 0, 1)}, {}, {}, {}, 2),
      \* one block voted through the three phases, a competing block at hand
      Environment("swap", {ChainBlock(1, 0, 0), ChainBlock(1, 5, 0)}, {10}, {0, 2}, {}, 3),
      \* block 1 committed by the peers in view 1, as the seal in block 2 tells
      Environment("ahead",
                  {ChainBlock(1, 0, 0),
                   [ChainBlock(2, 0, 0) EXCEPT
                       !.payload = Some(SealFor(PbftBlock(10, 0, 1, 1), 2, 1))]},
                  {}, {}, {}, 3) }
    \cup
    { \* block 1 changes the peers on chain: grown, shrunk, emptied
      Environment("membership", {ChainBlock(1, v, 0), ChainBlock(2, 0, v)}, {}, {}, {0}, 3) :
        v \in 1..3 }

VotedBlocks(e, seq_num) ==
    {pbft_block_from_block(b) : b \in {x \in e.blocks :
        x.block_id \in e.voted /\ x.block_num = seq_num}}

\* The messages a peer may deliver to a node in state s: the multicast
\* messages of the node's view for its sequence number, a PrePrepare for the
\* next one, the Commit messages for the previous one that come late, the
\* ViewChange messages for the next view and, if the environment has them,
\* for the current view and the relayed copies.
PeerMessages(s, e) ==
    {Message(t, s.view, s.seq_num, g, b, g, None) :
        t \in {"PrePrepare", "Prepare", "Commit"}, g \in e.voters,
        b \in VotedBlocks(e, s.seq_num)}
    \cup
    {Message("PrePrepare", s.view, s.seq_num + 1, g, b, g, None) :
        g \in e.voters, b \in VotedBlocks(e, s.seq_num + 1)}
    \cup
    {Message("Commit", 0, s.seq_num - 1, g, b, g, None) :
        g \in e.voters, b \in VotedBlocks(e, s.seq_num - 1)}
    \cup
    {Message("ViewChange", s.view + 1, s.seq_num - 1, g, DefaultBlock, g, Some(EmptySeal)) :
        g \in e.changers}
    \cup
    {Message("ViewChange", s.view, s.seq_num - 1, g, DefaultBlock, g, Some(EmptySeal)) :
        g \in IF e.stale THEN e.changers ELSE {}}
    \cup
    {Message(t, s.view, s.seq_num, g, b, 3, None) :
        t \in {"Prepare", "Commit"}, g \in e.copies,
        b \in VotedBlocks(e, s.seq_num)}

BlockIds(e) == {b.block_id : b \in e.blocks}

----------------------------------------------------------------------------
(* The node as a state machine: one action per event of the host.          *)

WithinBounds(s) ==
    /\ s.seq_num <= MaxSeq
    /\ s.view <= MaxView
    /\ Len(s.backlog) <= MaxBacklog

Running(n) == n \in DOMAIN node /\ ~node[n].panicked

\* The event `op` takes node n to state s.
Event(n, op, s) ==
    /\ WithinBounds(s)
    /\ node' = [node EXCEPT ![n] = s]
    /\ last' = [n |-> n, op |-> op]
    /\ UNCHANGED <<net, env>>

BlockNewStep(n, b) ==
    Running(n) /\ Event(n, "on_block_new", on_block_new(node[n], b))

OnBlockNew(n) == \E b \in env.blocks : BlockNewStep(n, b)

PeerMessageStep(n, m) ==
    Running(n) /\ Event(n, "on_peer_message", on_peer_message(begin(node[n]), m))

OnPeerMessage(n) == \E m \in PeerMessages(node[n], env) : PeerMessageStep(n, m)

OnBlockValid(n) ==
    \E id \in BlockIds(env) :
        Running(n) /\ Event(n, "on_block_valid", on_block_valid(node[n], id))

BlockCommitStep(n, id) ==
    Running(n) /\ Event(n, "on_block_commit", on_block_commit(begin(node[n]), id))

OnBlockCommit(n) == \E id \in BlockIds(env) : BlockCommitStep(n, id)

RetryBacklog(n) ==
    Running(n) /\ Event(n, "retry_backlog", retry_backlog(node[n]))

StartFaultyPrimaryTimeout(n) ==
    Running(n) /\ Event(n, "start_faulty_primary_timeout", timeout_start(begin(node[n])))

\* The engine polls the timeout and proposes a view change when it has expired.
FaultyPrimaryTimeoutExpired(n) ==
    /\ Running(n)
    /\ node[n].faulty_primary_timeout = "Active"
    /\ Event(n, "propose_view_change",
             propose_view_change(timeout_is_expired(begin(node[n]), TRUE)))

\* The node of Spec: peer 1, a secondary in view 0 and the primary of view 1.
Nodes == {1}

Init ==
    /\ env \in Environments
    /\ node = [n \in Nodes |-> PbftState_new(n, 0, DefaultPeers, env.period)]
    /\ net = {}
    /\ last = [n |-> 1, op |-> "new"]

Next ==
    \E n \in Nodes :
        \/ OnBlockNew(n)
        \/ OnPeerMessage(n)
        \/ OnBlockValid(n)
        \/ OnBlockCommit(n)
        \/ RetryBacklog(n)
        \/ StartFaultyPrimaryTimeout(n)
        \/ FaultyPrimaryTimeoutExpired(n)

Spec == Init /\ [][Next]_vars

----------------------------------------------------------------------------
(* Properties of the node under Spec.                                      *)

\* The fields of PbftState and of the message log.
StateFields ==
    {"id", "seq_num", "view", "phase", "role", "mode", "f", "peer_ids",
     "faulty_primary_timeout", "forced_view_change_period", "working_block",
     "messages", "first_block_new", "backlog", "seals"}

\* The event that led to state t called the host's `name`.
Called(t, name) == \E i \in 1..Len(t.calls) : t.calls[i].call = name

\* C4: on_block_commit(id) is a no-op unless the phase is Finished and id is
\* the id of the working block: it changes no field of the state or of the
\* log, calls the host for nothing and sends nothing.  A second delivery of
\* the same BlockCommit finds the phase PrePreparing and so changes nothing.
C4_CommitNoOp ==
    [][\A n \in DOMAIN node : \A id \in BlockIds(env) :
          (/\ last'.op = "on_block_commit"
                 /\ BlockCommitStep(n, id)
           /\ ~(/\ node[n].phase = "Finished"
                /\ IsSome(node[n].working_block)
                /\ Unwrap(node[n].working_block).block_id = id))
          => /\ \A x \in StateFields : node'[n][x] = node[n][x]
             /\ node'[n].calls = <<>>
             /\ node'[n].sent = <<>>
             /\ node'[n].commits = node[n].commits]_vars

\* A BlockCommit with the id of another block than the working block has
\* reached a node in phase Finished and has left it there.
C4_Witness ==
    /\ last.op = "on_block_commit"
    /\ node[last.n].phase = "Finished"
    /\ IsSome(node[last.n].working_block)
    /\ node[last.n].calls = <<>>

\* C5: every on_block_commit that acts raises seq_num by exactly 1 and leaves
\* the phase PrePreparing, be it called for the host's BlockCommit or from
\* inside catch-up, with or without a forced view change.
C5_CommitAdvances ==
    [][\A n \in DOMAIN node :
          /\ \A id \in BlockIds(env) :
                (/\ last'.op = "on_block_commit"
                 /\ BlockCommitStep(n, id)
                 /\ node[n].phase = "Finished"
                 /\ IsSome(node[n].working_block)
                 /\ Unwrap(node[n].working_block).block_id = id)
                => /\ node'[n].seq_num = node[n].seq_num + 1
                   /\ node'[n].phase = "PrePreparing"
          /\ \A b \in env.blocks :
                (/\ last'.op = "on_block_new"
                 /\ BlockNewStep(n, b)
                 /\ Called(node'[n], "commit_block"))
                => /\ node'[n].seq_num = node[n].seq_num + 1
                   /\ node'[n].phase = "PrePreparing"]_vars

\* Catch-up has committed block 1 and the commit has forced a view change.
C5_Witness ==
    /\ last.op = "on_block_new"
    /\ Called(node[last.n], "commit_block")
    /\ node[last.n].seq_num = 2
    /\ node[last.n].view = 1
    /\ node[last.n].phase = "PrePreparing"

\* C6: a running node has f = floor((|peer_ids| - 1) / 3) and f >= 1 at all
\* times, after a membership update too.
C6_FaultBound ==
    \A n \in DOMAIN node :
        ~node[n].panicked
        => /\ node[n].f = (Len(node[n].peer_ids) - 1) \div 3
           /\ node[n].f >= 1

\* A membership update has grown the network to seven peers.
C6_Witness ==
    /\ ~node[last.n].panicked
    /\ Len(node[last.n].peer_ids) = 7
    /\ node[last.n].f = 2
    /\ node[last.n].seq_num = 2

\* C7: whenever the working block is present, its block_num is seq_num.
C7_WorkingBlockNum ==
    \A n \in DOMAIN node :
        IsSome(node[n].working_block)
        => Unwrap(node[n].working_block).block_num = node[n].seq_num

\* on_block_commit has taken the queued block 2 as the working block.
C7_Witness ==
    /\ last.op = "on_block_commit"
    /\ IsSome(node[last.n].working_block)
    /\ node[last.n].seq_num = 2
    /\ Unwrap(node[last.n].working_block).block_num = 2

\* C8 as stated: the working block is present only in the phases Preparing,
\* Checking, Committing and Finished, never in PrePreparing.
C8_Original ==
    \A n \in DOMAIN node :
        IsSome(node[n].working_block)
        => node[n].phase \in {"Preparing", "Checking", "Committing", "Finished"}

\* C8: the working block, when present, is a block for seq_num that a BlockNew
\* in the log delivered; it can be present in any phase, PrePreparing
\* included, since on_block_new sets it and leaves the phase alone.
C8_WorkingBlockLogged ==
    \A n \in DOMAIN node :
        IsSome(node[n].working_block)
        => \E m \in node[n].messages :
              /\ m.msg_type = "BlockNew"
              /\ m.seq_num = node[n].seq_num
              /\ m.block = Unwrap(node[n].working_block)
              /\ node[n].phase \in Phases

\* on_block_new has set the working block of a secondary in PrePreparing.
C8_Witness ==
    /\ last.op = "on_block_new"
    /\ IsSome(node[last.n].working_block)
    /\ node[last.n].phase = "PrePreparing"
    /\ node[last.n].role = "Secondary"

\* The view in which catch-up with block b commits: the view of the first
\* vote of b's seal if that is the greater one.
CatchupView(s, b) ==
    LET v == Unwrap(b.payload).votes[1].view
    IN  IF v > s.view THEN v ELSE s.view

\* C10 as stated: the on_block_commit that commits block k*P, for P the forced
\* view change period and k >= 1, advances the view by 1.
C10_Original ==
    [][\A n \in DOMAIN node :
          /\ \A id \in BlockIds(env) :
                (/\ last'.op = "on_block_commit"
                 /\ BlockCommitStep(n, id)
                 /\ node[n].phase = "Finished"
                 /\ IsSome(node[n].working_block)
                 /\ Unwrap(node[n].working_block).block_id = id
                 /\ Unwrap(node[n].working_block).block_num
                        % node[n].forced_view_change_period = 0)
                => node'[n].view = node[n].view + 1
          /\ \A b \in env.blocks :
                (/\ last'.op = "on_block_new"
                 /\ BlockNewStep(n, b)
                 /\ Called(node'[n], "commit_block")
                 /\ Unwrap(node[n].working_block).block_num
                        % node[n].forced_view_change_period = 0)
                => node'[n].view = CatchupView(node[n], b) + 1]_vars

\* C10: the on_block_commit that commits block k*P - 1, the one that raises
\* seq_num to k*P, advances the view by 1 and leaves the node in Normal mode
\* and phase PrePreparing with no working block.
C10_ForcedRotation ==
    [][\A n \in DOMAIN node :
          /\ \A id \in BlockIds(env) :
                (/\ last'.op = "on_block_commit"
                 /\ BlockCommitStep(n, id)
                 /\ node[n].phase = "Finished"
                 /\ IsSome(node[n].working_block)
                 /\ Unwrap(node[n].working_block).block_id = id
                 /\ (Unwrap(node[n].working_block).block_num + 1)
                        % node[n].forced_view_change_period = 0)
                => /\ node'[n].view = node[n].view + 1
                   /\ node'[n].mode = "Normal"
                   /\ node'[n].phase = "PrePreparing"
                   /\ node'[n].working_block = None
          /\ \A b \in env.blocks :
                (/\ last'.op = "on_block_new"
                 /\ BlockNewStep(n, b)
                 /\ Called(node'[n], "commit_block")
                 /\ (Unwrap(node[n].working_block).block_num + 1)
                        % node[n].forced_view_change_period = 0)
                => /\ node'[n].view = CatchupView(node[n], b) + 1
                   /\ node'[n].mode = "Normal"
                   /\ node'[n].phase = "PrePreparing"
                   /\ node'[n].working_block = None]_vars

\* With period 2, the commit of block 1 has raised seq_num to 2 and the view
\* to 1.
C10_Witness ==
    /\ node[last.n].forced_view_change_period = 2
    /\ Called(node[last.n], "commit_block")
    /\ node[last.n].seq_num = 2
    /\ node[last.n].view = 1
    /\ node[last.n].mode = "Normal"
    /\ node[last.n].working_block = None

----------------------------------------------------------------------------
(* PbftState on its own: construction from a configuration, then calls of  *)
(* switch_phase.                                                           *)

\* The peer lists of a configuration: up to MaxPeers peers, led by 0 or by 1.
PeerLists ==
    {[i \in 1..k |-> (i - 1 + r) % k] : k \in 0..MaxPeers, r \in {0, 1}}

StateNodes == {0, 1}

Configs ==
    [name : {"state"}, id : StateNodes, head_block_num : 0..MaxHead,
     peers : PeerLists, period : {3}]

InitState ==
    /\ env \in Configs
    /\ node = [n \in {env.id} |->
                 PbftState_new(env.id, env.head_block_num, env.peers, env.period)]
    /\ net = {}
    /\ last = [n |-> env.id, op |-> "new", arg |-> "PrePreparing",
               from |-> "PrePreparing", count |-> 0]

SwitchPhase(n) ==
    \E d \in Phases :
        /\ Running(n)
        /\ last.count < MaxCalls
        /\ node' = [node EXCEPT ![n] = switch_phase(begin(node[n]), d)]
        /\ last' = [n |-> n, op |-> "switch_phase", arg |-> d,
                    from |-> node[n].phase, count |-> last.count + 1]
        /\ UNCHANGED <<net, env>>

NextState == \E n \in StateNodes : SwitchPhase(n)

SpecState == InitState /\ [][NextState]_vars

\* The cycle of the phases.
CyclicSuccessor ==
    {<<"PrePreparing", "Preparing">>, <<"Preparing", "Checking">>,
     <<"Checking", "Committing">>, <<"Committing", "Finished">>,
     <<"Finished", "PrePreparing">>}

----------------------------------------------------------------------------
(* One round of the multicast protocol at a secondary: the block, the       *)
(* PrePrepare of the primary, Prepare messages up to the quorum, the        *)
(* verdict of the host, Commit messages up to the quorum, the commit.       *)

\* The period of mock_config: no forced view change within the round.
RoundNodes == {1, 2, 3}

Rounds ==
    [name : {"round"}, id : RoundNodes, head_block_num : 0..1, period : {30}]

RoundBlock(e) == ChainBlock(e.head_block_num + 1, 0, 0)

\* The message of peer g for the block of the round, as it comes from g.
RoundMessage(e, msg_type, g) ==
    Message(msg_type, 0, e.head_block_num + 1, g,
            pbft_block_from_block(RoundBlock(e)), g, None)

\* The phases visited so far, followed by those of one more event.
RECURSIVE Visit(_, _)
Visit(visited, phases) ==
    IF phases = <<>> THEN visited
    ELSE Visit(IF visited[Len(visited)] = Head(phases) THEN visited
               ELSE Append(visited, Head(phases)),
               Tail(phases))

\* The event `op` takes node n to state s and the round to `stage`.
RoundEvent(n, op, s, stage) ==
    /\ node' = [node EXCEPT ![n] = s]
    /\ last' = [n |-> n, op |-> op, stage |-> stage,
                visited |-> Visit(last.visited, s.phases)]
    /\ UNCHANGED <<net, env>>

Prepared(s) == check_prepared(s.messages, RoundMessage(env, "PrePrepare", 0), s.f)

Committable(s) == check_committable(s.messages, RoundMessage(env, "PrePrepare", 0), s.f)

InitRound ==
    /\ env \in Rounds
    /\ node = [n \in {env.id} |->
                 PbftState_new(env.id, env.head_block_num, DefaultPeers, env.period)]
    /\ net = {}
    /\ last = [n |-> env.id, op |-> "new", stage |-> "start",
               visited |-> <<"PrePreparing">>]

RoundBlockNew(n) ==
    /\ Running(n)
    /\ last.stage = "start"
    /\ RoundEvent(n, "on_block_new", on_block_new(node[n], RoundBlock(env)), "block_new")

RoundPrePrepare(n) ==
    /\ Running(n)
    /\ last.stage = "block_new"
    /\ RoundEvent(n, "on_peer_message",
                  on_peer_message(begin(node[n]), RoundMessage(env, "PrePrepare", 0)),
                  "pre_prepared")

RoundPrepare(n) ==
    /\ Running(n)
    /\ last.stage = "pre_prepared"
    /\ \E g \in ToSet(DefaultPeers) \ {n} :
          LET s == on_peer_message(begin(node[n]), RoundMessage(env, "Prepare", g))
          IN  RoundEvent(n, "on_peer_message", s,
                         IF Prepared(s) THEN "prepared" ELSE "pre_prepared")

RoundBlockValid(n) ==
    /\ Running(n)
    /\ last.stage = "prepared"
    /\ RoundEvent(n, "on_block_valid",
                  on_block_valid(node[n], RoundBlock(env).block_id), "valid")

RoundCommit(n) ==
    /\ Running(n)
    /\ last.stage = "valid"
    /\ \E g \in ToSet(DefaultPeers) \ {n} :
          LET s == on_peer_message(begin(node[n]), RoundMessage(env, "Commit", g))
          IN  RoundEvent(n, "on_peer_message", s,
                         IF Committable(s) THEN "committable" ELSE "valid")

RoundBlockCommit(n) ==
    /\ Running(n)
    /\ last.stage = "committable"
    /\ RoundEvent(n, "on_block_commit",
                  on_block_commit(begin(node[n]), RoundBlock(env).block_id), "done")

NextRound ==
    \E n \in RoundNodes :
        \/ RoundBlockNew(n)
        \/ RoundPrePrepare(n)
        \/ RoundPrepare(n)
        \/ RoundBlockValid(n)
        \/ RoundCommit(n)
        \/ RoundBlockCommit(n)

SpecRound == InitRound /\ [][NextRound]_vars

FullCycle ==
    <<"PrePreparing", "Preparing", "Checking", "Committing", "Finished",
      "PrePreparing">>

\* C2: a secondary in Normal mode at seq_num s that gets BlockNew(s), the
\* primary's PrePrepare for it, Prepare messages until check_prepared holds,
\* BlockValid, Commit messages until check_committable holds and BlockCommit
\* goes through PrePreparing, Preparing, Checking, Committing, Finished,
\* PrePreparing in this order and through no other phase; it is in Preparing
\* until the Prepare that completes the quorum, in Committing until the Commit
\* that completes the quorum, and ends at seq_num s + 1 with no working block.
C2_MulticastCycle ==
    \A n \in DOMAIN node :
        /\ Len(last.visited) <= Len(FullCycle)
        /\ last.visited = SubSeq(FullCycle, 1, Len(last.visited))
        /\ node[n].phase = last.visited[Len(last.visited)]
        /\ last.stage \in {"start", "block_new"} => node[n].phase = "PrePreparing"
        /\ last.stage = "pre_prepared"
           => node[n].phase = "Preparing" /\ ~Prepared(node[n])
        /\ last.stage = "prepared" => node[n].phase = "Checking"
        /\ last.stage = "valid"
           => node[n].phase = "Committing" /\ ~Committable(node[n])
        /\ last.stage = "committable" => node[n].phase = "Finished"
        /\ last.stage = "done"
           => /\ node[n].phase = "PrePreparing"
              /\ last.visited = FullCycle
              /\ node[n].seq_num = env.head_block_num + 2
              /\ node[n].working_block = None
              /\ node[n].mode = "Normal"

\* The round of block 1 is through: the node is back in PrePreparing at
\* sequence number 2.
C2_Witness ==
    /\ last.stage = "done"
    /\ last.visited = FullCycle
    /\ node[last.n].seq_num = 2
    /\ node[last.n].role = "Secondary"

----------------------------------------------------------------------------
(* A network of four peers: the nodes 0, 1 and 2 run the program, peer 3   *)
(* is Byzantine.  It votes for the primary's block like the others, and it *)
(* publishes a block of its own for sequence number 1 and a child of it     *)
(* whose seal it has made up: two Commit votes that name the peers 0 and 2  *)
(* as signers, in envelopes signed with its own key.                        *)

Correct == {0, 1, 2}

Byzantine == 3

ForkBlock == Block(15, 0, Byzantine, 1, None, 1)

ForgedSeal ==
    [previous_id |-> ForkBlock.block_id, summary |-> 2,
     votes |-> <<Vote(0, 0, 1, pbft_block_from_block(ForkBlock), Byzantine),
                 Vote(2, 0, 1, pbft_block_from_block(ForkBlock), Byzantine)>>]

ForgedChild == Block(25, ForkBlock.block_id, Byzantine, 2, Some(ForgedSeal), 2)

\* The network: the blocks, the node that the peers' messages do not reach
\* and that the Byzantine peer feeds its blocks to, and the period of
\* mock_config.
Networks ==
    [name : {"network"},
     blocks : {{ChainBlock(1, 0, 0), ForkBlock, ForgedChild}},
     behind : {1}, period : {30}]

\* The votes of the Byzantine peer for the primary's block.
ByzantineVotes ==
    {Message(t, 0, 1, Byzantine, pbft_block_from_block(ChainBlock(1, 0, 0)),
             Byzantine, None) : t \in {"Prepare", "Commit"}}

\* The event takes node n to state s: the node's broadcasts go out on the
\* network, and what else the event did is forgotten.
NetEvent(n, s) ==
    /\ WithinBounds(s)
    /\ node' = [node EXCEPT ![n] = begin(s)]
    /\ net' = net \cup ToSet(s.sent)
    /\ UNCHANGED <<env, last>>

InitNet ==
    /\ env \in Networks
    /\ node = [n \in Correct |-> PbftState_new(n, 0, DefaultPeers, env.period)]
    /\ net = {}
    /\ last = [n |-> 0, op |-> "new"]

\* The host learns of a block; the Byzantine peer's blocks reach one node only.
NetBlockNew(n) ==
    \E b \in env.blocks :
        /\ b.signer_id = Byzantine => n = env.behind
        /\ Running(n)
        /\ NetEvent(n, on_block_new(node[n], b))

\* A message of a peer arrives.
NetPeerMessage(n) ==
    \E m \in net \cup ByzantineVotes :
        /\ n # env.behind
        /\ m.hdr # n
        /\ Running(n)
        /\ NetEvent(n, on_peer_message(begin(node[n]), m))

\* The host has checked a block the node asked it to check.
NetBlockValid(n) ==
    \E id \in node[n].checks :
        Running(n) /\ NetEvent(n, on_block_valid(node[n], id))

\* The host has committed a block the node asked it to commit.
NetBlockCommit(n) ==
    \E c \in node[n].commits :
        Running(n) /\ NetEvent(n, on_block_commit(begin(node[n]), c[2]))

NextNet ==
    \E n \in Correct :
        \/ NetBlockNew(n)
        \/ NetPeerMessage(n)
        \/ NetBlockValid(n)
        \/ NetBlockCommit(n)

SpecNet == InitNet /\ [][NextNet]_vars

\* C1: agreement: two correct nodes whose on_block_commit processes a block
\* at the same seq_num process the same block.
C1_Agreement ==
    \A i \in DOMAIN node : \A j \in DOMAIN node :
        \A ci \in node[i].committed : \A cj \in node[j].committed :
            ci[1] = cj[1] => ci[2] = cj[2]

----------------------------------------------------------------------------
(* View changes, under Spec.                                               *)

\* The signers of the ViewChange messages for the (view, seq_num) of m in the
\* log of s once m is in it.
ViewChangers(s, m) ==
    {x.signer_id : x \in {y \in s.messages \cup {m} :
        y.msg_type = "ViewChange" /\ y.view = m.view /\ y.seq_num = m.seq_num}}

Bandwagon(s, m) ==
    Cardinality(ViewChangers(s, m)) >= s.f + 1 /\ m.view > s.view

\* The event that led to state t broadcast a message of the type.
Sent(t, msg_type) == \E i \in 1..Len(t.sent) : t.sent[i].msg_type = msg_type

ViewChangersFor(t, v) ==
    {x.signer_id : x \in {y \in t.messages :
        y.msg_type = "ViewChange" /\ y.view = v}}

\* C12: handling a ViewChange message changes the node's view only to a view
\* v for which the log holds 2f + 1 ViewChange messages of distinct signers;
\* the node then has view v, mode Normal, phase PrePreparing, no working
\* block, and the role Primary iff peer_ids[v mod |peer_ids|] is its own id.
C12_Completion ==
    [][\A n \in DOMAIN node : \A m \in PeerMessages(node[n], env) :
          (/\ last'.op = "on_peer_message"
           /\ m.msg_type = "ViewChange"
           /\ PeerMessageStep(n, m)
           /\ node'[n].view # node[n].view)
          => /\ Cardinality(ViewChangersFor(node'[n], node'[n].view))
                    >= 2 * node[n].f + 1
             /\ node'[n].view = m.view
             /\ node'[n].mode = "Normal"
             /\ node'[n].phase = "PrePreparing"
             /\ node'[n].working_block = None
             /\ node'[n].role \in {"Primary", "Secondary"}
             /\ node'[n].role = "Primary"
                <=> node'[n].peer_ids[(node'[n].view % Len(node'[n].peer_ids)) + 1]
                        = node'[n].id]_vars

\* A node that was waiting in ViewChanging mode has got the ViewChange that
\* completes the quorum for view 1 and has become the primary.
C12_Witness ==
    /\ last.op = "on_peer_message"
    /\ ~Sent(node[last.n], "ViewChange")
    /\ node[last.n].view = 1
    /\ node[last.n].role = "Primary"
    /\ node[last.n].mode = "Normal"
    /\ Cardinality(ViewChangersFor(node[last.n], 1)) >= 3

\* C13: propose_view_change called in Normal mode sets the mode to
\* ViewChanging and broadcasts exactly one ViewChange message, for view + 1
\* and seq_num - 1, signed by the node and carrying the stored seal for
\* seq_num - 1; called in ViewChanging mode it changes nothing and broadcasts
\* nothing.  So the node is never left in ViewChanging mode by
\* propose_view_change without its ViewChange having gone out, stored seal or
\* not.
C13_ProposeViewChange ==
    [][\A n \in DOMAIN node :
          (last'.op = "propose_view_change" /\ FaultyPrimaryTimeoutExpired(n))
          => IF node[n].mode = "Normal"
             THEN /\ node'[n].mode = "ViewChanging"
                  /\ Len(node'[n].sent) = 1
                  /\ node'[n].sent[1].msg_type = "ViewChange"
                  /\ node'[n].sent[1].view = node[n].view + 1
                  /\ node'[n].sent[1].seq_num = node[n].seq_num - 1
                  /\ node'[n].sent[1].signer_id = node[n].id
                  /\ (node[n].seq_num - 1) \in DOMAIN node[n].seals
                     => node'[n].sent[1].seal
                            = Some(node[n].seals[node[n].seq_num - 1])
             ELSE /\ node'[n].sent = <<>>
                  /\ node'[n].mode = node[n].mode
                  /\ node'[n].view = node[n].view
                  /\ node'[n].phase = node[n].phase
                  /\ node'[n].working_block = node[n].working_block
                  /\ node'[n].messages = node[n].messages]_vars

----------------------------------------------------------------------------
(* The seal verifier on its own: a node that may have block 1 as its       *)
(* working block is handed a block with an arbitrary payload.               *)

\* The votes a seal may hold: Commit messages for block 10 of the peers 0, 2,
\* 3, of peer 5 (a peer only after block 11) and of the stranger 9, and for
\* block 11 of the peers 2 and 5, each in an envelope of its signer; and two
\* with a broken envelope.
SealVotes ==
    {Vote(g, 0, 1, PbftBlock(10, 0, 1, 1), g) : g \in {0, 2, 3, 5, 9}}
    \cup
    {Vote(g, 0, 1, PbftBlock(11, 0, 1, 1), g) : g \in {2, 5}}
    \cup
    {[Vote(2, 0, 1, PbftBlock(10, 0, 1, 1), 2) EXCEPT !.sig_ok = FALSE],
     [Vote(3, 0, 1, PbftBlock(10, 0, 1, 1), 3) EXCEPT !.sha_ok = FALSE]}

VoteSeqs == UNION {[1..k -> SealVotes] : k \in 0..MaxVotes}

\* The blocks handed to the verifier, published by peer 0 on top of block 10
\* or 11, with summary 2.
SealBlocks ==
    {Block(20, prev, 0, num, payload, 2) :
        prev \in {10, 11}, num \in {1, 2},
        payload \in {None} \cup
            {Some([previous_id |-> sp, summary |-> sm, votes |-> vs]) :
                sp \in {10, 11}, sm \in {2, 7}, vs \in VoteSeqs}}

SealNodes == {1}

InitSeal ==
    /\ env \in [name : {"seal"}, block : SealBlocks, period : {30}]
    /\ node = [n \in SealNodes |-> PbftState_new(n, 0, DefaultPeers, env.period)]
    /\ net = {}
    /\ last = [n |-> 1, op |-> "new"]

\* The block before the one at hand arrives.
SealFirstBlock(n) ==
    /\ last.op = "new"
    /\ Running(n)
    /\ node' = [node EXCEPT ![n] =
                   on_block_new(node[n], Block(env.block.previous_id, 0, 0, 1, None, 1))]
    /\ last' = [n |-> n, op |-> "first_block"]
    /\ UNCHANGED <<net, env>>

\* The block at hand arrives.
SealBlockNew(n) ==
    /\ last.op \in {"new", "first_block"}
    /\ Running(n)
    /\ node' = [node EXCEPT ![n] = on_block_new(node[n], env.block)]
    /\ last' = [n |-> n, op |-> "on_block_new"]
    /\ UNCHANGED <<net, env>>

NextSeal == \E n \in SealNodes : SealFirstBlock(n) \/ SealBlockNew(n)

SpecSeal == InitSeal /\ [][NextSeal]_vars

\* The ids of the voters of a seal: the signers its votes name.
Voters(seal) == {seal.votes[i].signer_id : i \in DOMAIN seal.votes}

\* The peers on chain at a block.
PeersAt(block_id) == ToSet(get_peers_from_settings(block_id))

\* C14: a block with block_num >= 2 that on_block_new does not fail on seal
\* grounds has a payload, a seal whose previous_id and summary are the block's,
\* votes whose block id is the seal's previous_id, voters that are peers of the
\* sealed block other than the block's signer, and at least 2f distinct
\* voters.  A block that misses any of these is failed.
C14_SealAccepted ==
    [][\A n \in DOMAIN node :
          (/\ SealBlockNew(n)
           /\ env.block.block_num >= 2
           /\ ~Called(node'[n], "fail_block"))
          => /\ IsSome(env.block.payload)
             /\ LET seal == Unwrap(env.block.payload)
                IN  /\ seal.previous_id = env.block.previous_id
                    /\ seal.summary = env.block.summary
                    /\ \A i \in DOMAIN seal.votes :
                          seal.votes[i].block.block_id = seal.previous_id
                    /\ Voters(seal) \subseteq
                          PeersAt(env.block.previous_id) \ {env.block.signer_id}
                    /\ Cardinality(Voters(seal)) >= 2 * node[n].f
                    /\ seal \in {node'[n].seals[k] : k \in DOMAIN node'[n].seals}]_vars

\* A seal of three votes, two of them of the same voter, has been accepted
\* and catch-up has committed block 10 on its strength.
C14_Witness ==
    /\ last.op = "on_block_new"
    /\ env.block.block_num = 2
    /\ IsSome(env.block.payload)
    /\ Len(Unwrap(env.block.payload).votes) = 3
    /\ Cardinality(Voters(Unwrap(env.block.payload))) = 2
    /\ ~Called(node[last.n], "fail_block")
    /\ Called(node[last.n], "commit_block")

----------------------------------------------------------------------------
(* src/src/node.rs: publishing.  The primary builds the seal of the block   *)
(* before from its log and hands it to the host as the payload of the next. *)

\* get_enough_messages (specification, sections 4.2 and 4.6): the selections
\* it may return, each min_votes messages of the type for seq_num and one
\* block, from distinct signers other than the node itself; none when there
\* is no such selection.
get_enough_messages(s, msg_type, seq_num, min_votes) ==
    {sel \in SUBSET {x \in get_messages_of_type_seq(s, msg_type, seq_num) :
                        x.signer_id # s.id} :
        /\ Cardinality(sel) = min_votes
        /\ \A x, y \in sel : x.block.block_id = y.block.block_id
        /\ \A x, y \in sel : x.signer_id = y.signer_id => x = y}

\* The messages of a selection in the order of their signers.
RECURSIVE InOrder(_)
InOrder(sel) ==
    IF sel = {} THEN <<>>
    ELSE LET x == CHOOSE y \in sel : \A z \in sel : y.signer_id <= z.signer_id
         IN  <<x>> \o InOrder(sel \ {x})

\* The vote made of a logged message: its header bytes and signature (those of
\* the key it arrived under; a message without a header gives a vote whose
\* header does not verify) and its message bytes.
signed_commit_vote(m) ==
    [msg_type |-> m.msg_type, signer_id |-> m.signer_id, view |-> m.view,
     seq_num |-> m.seq_num, block |-> m.block, key |-> m.hdr,
     sig_ok |-> m.hdr # NoKey, sha_ok |-> TRUE]

\* A builder content with f votes.
build_seal_mut(s, summary, choice) ==
    LET found == get_enough_messages(s, "Commit", s.seq_num - 1, s.f)
    IN  IF found = {} THEN None
        ELSE LET messages == InOrder(CHOOSE sel \in found : TRUE)
             IN  Some([previous_id |-> messages[1].block.block_id,
                       summary |-> summary,
                       votes |-> [i \in DOMAIN messages |->
                                     signed_commit_vote(messages[i])]])

\* build_seal: None when the log does not hold 2f Commit messages, or Some(the
\* seal made of the selection `choice` of get_enough_messages).
build_seal(s, summary, choice) ==
    LET min_votes == 2 * s.f
        found == get_enough_messages(s, "Commit", s.seq_num - 1, min_votes)
    IN  IF found = {} THEN None
        ELSE LET messages == InOrder(IF choice \in found THEN choice
                                     ELSE CHOOSE sel \in found : TRUE)
             IN  Some([previous_id |-> messages[1].block.block_id,
                       summary |-> summary,
                       votes |-> [i \in DOMAIN messages |->
                                     signed_commit_vote(messages[i])]])

\* A primary that leaves the payload blank for block 0 only.
try_publish_mut(s0, summary, choice, finalized) ==
    LET s == begin(s0)
    IN  IF ~is_primary(s) \/ s.phase # "PrePreparing" THEN s
        ELSE IF ~IsSome(summary) THEN s
        ELSE LET data == IF s.seq_num <= 0 THEN None
                         ELSE build_seal(s, Unwrap(summary), choice)
                 s1 == [service_call(s, "finalize_block", 0) EXCEPT !.payload = data]
             IN  IF s.seq_num > 0 /\ ~IsSome(data) THEN err(s, "InternalError")
                 ELSE IF finalized \in {"Ok", "BlockNotReady"} THEN s1
                 ELSE err(s1, "InternalError")

\* A primary that publishes in whatever phase it is.
try_publish_phase_mut(s0, summary, choice, finalized) ==
    LET s == begin(s0)
    IN  IF ~is_primary(s) THEN s
        ELSE IF ~IsSome(summary) THEN s
        ELSE LET data == IF s.seq_num <= 1 THEN None
                         ELSE build_seal(s, Unwrap(summary), choice)
                 s1 == [service_call(s, "finalize_block", 0) EXCEPT !.payload = data]
             IN  IF s.seq_num > 1 /\ ~IsSome(data) THEN err(s, "InternalError")
                 ELSE IF finalized \in {"Ok", "BlockNotReady"} THEN s1
                 ELSE err(s1, "InternalError")

\* try_publish.  summary is what summarize_block returns (None: an error),
\* finalized what finalize_block returns; the payload handed to the host is
\* recorded (None: empty).
try_publish(s0, summary, choice, finalized) ==
    LET s == begin(s0)
    IN  IF ~is_primary(s) \/ s.phase # "PrePreparing" THEN s
        ELSE IF ~IsSome(summary) THEN s
        ELSE LET data == IF s.seq_num <= 1 THEN None
                         ELSE build_seal(s, Unwrap(summary), choice)
                 s1 == [service_call(s, "finalize_block", 0) EXCEPT !.payload = data]
             IN  IF s.seq_num > 1 /\ ~IsSome(data) THEN err(s, "InternalError")
                 ELSE IF finalized \in {"Ok", "BlockNotReady"} THEN s1
                 ELSE err(s1, "InternalError")

----------------------------------------------------------------------------
(* Publishing and verifying: node 0, the primary of view 0, publishes       *)
(* blocks 1 and 2 and runs the round of block 1 with the messages of its     *)
(* peers; node 1 is behind: it learns of the blocks only, once block 2 is    *)
(* out.  net holds the published blocks.                                     *)

Builder == 0

PublishNodes == {0, 1}

\* The block the host makes when node s finalizes with the payload data: on
\* top of the chain head, signed by the node, with the summary of the host.
PublishedBlock(s, data) ==
    Block(10 * s.seq_num, IF s.seq_num = 1 THEN 0 ELSE 10 * (s.seq_num - 1),
          s.id, s.seq_num, data, s.seq_num)

\* A block 1 that carries a payload all the same, published by peer 3.
StuffedBlock == Block(13, 0, 3, 1, Some(SealFor(PbftBlock(0, 0, 0, 0), 1, 0)), 1)

\* The messages of the peers for block 1, and a Commit of peer 3 for another
\* block.
PublishMessages ==
    {Message(x[1], 0, 1, x[2], pbft_block_from_block(PublishedBlock(
                 [seq_num |-> 1, id |-> Builder], None)), x[2], None) :
        x \in {<<"Prepare", 2>>, <<"Prepare", 3>>,
                <<"Commit", 1>>, <<"Commit", 2>>, <<"Commit", 3>>}}
    \cup {Message("Commit", 0, 1, 3, PbftBlock(15, 3, 1, 1), 3, None)}

\* The nodes start at the chain head 0 or, their logs empty, at block 1.
InitPublish ==
    /\ env \in [name : {"publish"}, period : {30}, head : {0, 1}]
    /\ node = [n \in PublishNodes |->
                  PbftState_new(n, env.head, DefaultPeers, env.period)]
    /\ net = {}
    /\ last = [n |-> 0, op |-> "new"]

PublishEvent(n, op, s) ==
    /\ node' = [node EXCEPT ![n] = s]
    /\ last' = [n |-> n, op |-> op]
    /\ UNCHANGED env

\* The hosts a try_publish may meet: what summarize_block returns for a node at
\* seq_num (None: it declines) and what finalize_block returns.
PublishHosts(seq_num) ==
    {<<None, "BlockNotReady">>, <<Some(seq_num), "Ok">>,
     <<Some(seq_num), "BlockNotReady">>, <<Some(seq_num), "UnknownBlock">>}

\* The engine's loop calls try_publish; a finalized block is published.  The
\* host finalizes one block of a number.
TryPublishStep(n, summary, choice, finalized) ==
    LET s == try_publish(node[n], summary, choice, finalized)
    IN  /\ Running(n)
        /\ finalized = "Ok" => \A b \in net : b.block_num # node[n].seq_num
        /\ PublishEvent(n, "try_publish", s)
        /\ net' = IF s.result = "Ok" /\ Called(s, "finalize_block")
                     /\ finalized = "Ok"
                  THEN net \cup {PublishedBlock(node[n], s.payload)}
                  ELSE net

\* The selections of get_enough_messages a build_seal of node state s may
\* work on.
SealChoices(s) ==
    LET found == get_enough_messages(s, "Commit", s.seq_num - 1, 2 * s.f)
    IN  IF found = {} THEN {{}} ELSE found

TryPublish(n) ==
    \E host \in PublishHosts(node[n].seq_num), choice \in SealChoices(node[n]) :
        TryPublishStep(n, host[1], choice, host[2])

PublishBlockNewStep(n, b) ==
    /\ Running(n)
    /\ n = Builder \/ \E c \in net : c.block_num > 1
    /\ b.block_num >= node[n].seq_num
    /\ PublishEvent(n, "on_block_new", on_block_new(node[n], b))
    /\ UNCHANGED net

PublishBlockNew(n) == \E b \in net \cup {StuffedBlock} : PublishBlockNewStep(n, b)

PublishPeerMessage(n) ==
    /\ Running(n)
    /\ n = Builder
    /\ IsSome(node[n].working_block) \/ env.head = 1
    /\ \E m \in PublishMessages :
          /\ m \notin node[n].messages
          /\ PublishEvent(n, "on_peer_message", on_peer_message(begin(node[n]), m))
    /\ UNCHANGED net

PublishBlockValid(n) ==
    /\ Running(n)
    /\ Called(node[n], "check_blocks")
    /\ PublishEvent(n, "on_block_valid",
                    on_block_valid(node[n], node[n].calls[1].id))
    /\ UNCHANGED net

PublishBlockCommit(n) ==
    /\ Running(n)
    /\ Called(node[n], "commit_block")
    /\ last.n = n
    /\ PublishEvent(n, "on_block_commit",
                    on_block_commit(begin(node[n]), 10 * node[n].seq_num))
    /\ UNCHANGED net

NextPublish ==
    \E n \in PublishNodes :
        \/ TryPublish(n)
        \/ PublishBlockNew(n)
        \/ PublishPeerMessage(n)
        \/ PublishBlockValid(n)
        \/ PublishBlockCommit(n)

SpecPublish == InitPublish /\ [][NextPublish]_vars

C16_NoSealBelowTwo ==
    [][\A n \in DOMAIN node :
          /\ \A b \in net \cup {StuffedBlock} :
                (last'.op = "on_block_new" /\ b.block_num < 2
                 /\ PublishBlockNewStep(n, b))
                => /\ ~Called(node'[n], "fail_block")
                   /\ node'[n].seals = node[n].seals
                   /\ node'[n].result = "Ok"
          /\ (last'.op = "try_publish" /\ TryPublish(n) /\ is_primary(node[n])
              /\ node[n].phase = "PrePreparing" /\ node[n].seq_num <= 1)
             => /\ node'[n].payload = None
                /\ \A i \in DOMAIN node'[n].calls :
                      node'[n].calls[i].call = "finalize_block"
                /\ node'[n].result # "Ok" => Called(node'[n], "finalize_block")
                /\ \A b \in net' : b.block_num <= 1 => b.payload = None]_vars

\* Block 1 is out with an empty payload, and node 1 has taken the block 1 that
\* carries a payload as its working block.
C16_Witness ==
    /\ \E b \in net : b.block_num = 1 /\ b.signer_id = Builder /\ b.payload = None
    /\ last = [n |-> 1, op |-> "on_block_new"]
    /\ node[1].working_block = Some(pbft_block_from_block(StuffedBlock))
    /\ DOMAIN node[1].seals = {}
    /\ ~Called(node[1], "fail_block")

\* The signers of the messages of a type logged by t for a view, a sequence
\* number and a block.
Signers(t, msg_type, view, seq_num, block_id) ==
    {x.signer_id : x \in {y \in t.messages :
        /\ y.msg_type = msg_type /\ y.view = view /\ y.seq_num = seq_num
        /\ y.block.block_id = block_id}}

\* C17: an event takes a node from Preparing to Checking only when its log
\* holds, for a logged PrePrepare of its sequence number, Prepare messages of
\* at least 2f distinct signers other than the PrePrepare's; a peer message
\* makes it call commit_block only when the log holds Commit messages of at
\* least 2f + 1 distinct signers for the block.  However many copies of a vote
\* arrive, they count once.
C17_DistinctSigners ==
    [][\A n \in DOMAIN node :
          /\ (node[n].phase = "Preparing" /\ node'[n].phase = "Checking")
             => \E pp \in node'[n].messages :
                   /\ pp.msg_type = "PrePrepare"
                   /\ pp.seq_num = node[n].seq_num
                   /\ Cardinality(Signers(node'[n], "Prepare", pp.view, pp.seq_num,
                                          pp.block.block_id) \ {pp.signer_id})
                         >= 2 * node[n].f
          /\ (last'.op = "on_peer_message" /\ Called(node'[n], "commit_block"))
             => \E pp \in node'[n].messages :
                   /\ pp.msg_type = "PrePrepare"
                   /\ pp.seq_num = node[n].seq_num
                   /\ Cardinality(Signers(node'[n], "Commit", pp.view, pp.seq_num,
                                          pp.block.block_id))
                         >= 2 * node[n].f + 1]_vars

\* Three Prepare messages of two signers, one of them the primary: the node is
\* still Preparing.
C17_Witness ==
    /\ last.op = "on_peer_message"
    /\ node[last.n].phase = "Preparing"
    /\ Cardinality(get_messages_of_type_seq(node[last.n], "Prepare",
                                            node[last.n].seq_num)) = 3
    /\ Cardinality(Signers(node[last.n], "Prepare", 0, 1, 10)) = 2

\* C18: a PrePrepare whose signer is not the primary of the message's view is
\* rejected: on_peer_message returns an error, the log and the backlog stay as
\* they are, the phase too, and nothing is broadcast.
C18_NotFromPrimary ==
    [][last'.op = "on_peer_message" =>
       \A n \in DOMAIN node : \A m \in PeerMessages(node[n], env) :
          (/\ m.msg_type = "PrePrepare"
           /\ m.signer_id #
                 node[n].peer_ids[(m.view % Len(node[n].peer_ids)) + 1]
           /\ PeerMessageStep(n, m))
          => /\ node'[n].result \notin {"Ok", "panic"}
             /\ node'[n].messages = node[n].messages
             /\ node'[n].first_block_new = node[n].first_block_new
             /\ node'[n].backlog = node[n].backlog
             /\ node'[n].phase = node[n].phase
             /\ node'[n].sent = <<>>
             /\ node'[n].calls = <<>>]_vars

\* A PrePrepare of peer 2 for the working block has been refused in view 0.
C18_Witness ==
    /\ last.op = "on_peer_message"
    /\ node[last.n].result = "NotFromPrimary"
    /\ node[last.n].view = 0
    /\ IsSome(node[last.n].working_block)
    /\ node[last.n].phase = "PrePreparing"

\* The calls of the host's `name` for `id` that the event leading to t made.
Calls(t, name, id) ==
    {i \in DOMAIN t.calls : t.calls[i] = [call |-> name, id |-> id]}

\* Catch-up applies to block b at node state s: s has the block of its
\* sequence number as working block and has not asked for its commit, and b is
\* the next block on top of it with a seal that verifies.
CatchupApplies(s, b) ==
    /\ ~s.panicked
    /\ s.phase # "Finished"
    /\ IsSome(s.working_block)
    /\ Unwrap(s.working_block).block_num = s.seq_num
    /\ b.block_num = s.seq_num + 1
    /\ b.previous_id = Unwrap(s.working_block).block_id
    /\ verify_consensus_seal(s, b).status = "Some"

\* The commit of `block_id` at the sequence number after s's neither forces a
\* view change nor changes the membership.
QuietCommit(s, block_id) ==
    /\ (s.seq_num + 1) % s.forced_view_change_period # 0
    /\ get_peers_from_settings(block_id) = s.peer_ids

\* C19: catch-up calls commit_block for the working block exactly
\* once, adopts the view of the seal's votes if it is the higher one, and
\* returns with seq_num + 1, phase PrePreparing and, after a quiet commit, the
\* projection of the block delivered as working block.
C19_Catchup ==
    [][last'.op = "on_block_new" =>
       \A n \in DOMAIN node : \A b \in env.blocks :
          (CatchupApplies(node[n], b) /\ BlockNewStep(n, b) /\ ~node'[n].panicked)
          => LET wb == Unwrap(node[n].working_block)
             IN  /\ Cardinality(Calls(node'[n], "commit_block", wb.block_id)) = 1
                 /\ \A i \in DOMAIN node'[n].calls :
                       node'[n].calls[i].call = "commit_block"
                       => node'[n].calls[i].id = wb.block_id
                 /\ node'[n].view >= CatchupView(node[n], b)
                 /\ node'[n].seq_num = node[n].seq_num + 1
                 /\ node'[n].phase = "PrePreparing"
                 /\ QuietCommit(node[n], wb.block_id)
                    => /\ node'[n].view = CatchupView(node[n], b)
                       /\ node'[n].working_block = Some(pbft_block_from_block(b))]_vars

C21_SealFailure ==
    [][last'.op = "on_block_new" =>
       \A n \in DOMAIN node : \A b \in env.blocks :
          (/\ b.block_num >= node[n].seq_num
           /\ b.block_num >= 2
           /\ verify_consensus_seal(node[n], b).status = "Err"
           /\ BlockNewStep(n, b))
          => /\ Cardinality(Calls(node'[n], "fail_block", b.block_id)) = 1
             /\ node'[n].mode = "ViewChanging"
             /\ node[n].mode = "Normal" => Sent(node'[n], "ViewChange")
             /\ node'[n].result = "InternalError(seal)"
             /\ \A x \in node'[n].messages \ node[n].messages :
                   x.msg_type # "BlockNew"
             /\ node'[n].working_block = node[n].working_block
             /\ ~Sent(node'[n], "PrePrepare")
             /\ ~Called(node'[n], "commit_block")
             /\ node'[n].seq_num = node[n].seq_num
             /\ node'[n].phase = node[n].phase]_vars

\* C22: on_block_new for a block numbered below seq_num returns Ok and changes
\* no field of the state or of the log, whatever the block's seal; it calls
\* the host for nothing and sends nothing.
C22_StaleBlockNew ==
    [][last'.op = "on_block_new" =>
       \A n \in DOMAIN node : \A b \in env.blocks :
          (b.block_num < node[n].seq_num /\ BlockNewStep(n, b))
          => /\ \A x \in StateFields : node'[n][x] = node[n][x]
             /\ node'[n].result = "Ok"
             /\ node'[n].calls = <<>>
             /\ node'[n].sent = <<>>]_vars

\* A block has been delivered to a node at seq_num 3 that has no working
\* block, and has left it without one: the block was stale.
C22_Witness ==
    /\ last.op = "on_block_new"
    /\ env.name = "catchup"
    /\ node[last.n].seq_num = 3
    /\ node[last.n].working_block = None
    /\ node[last.n].mode = "Normal"
    /\ node[last.n].calls = <<>>
    /\ node[last.n].result = "Ok"

\* The PrePrepare messages for (view, seq_num, block) among the broadcasts of
\* the event that led to t.
SentPrePrepares(t, view, seq_num, block) ==
    {i \in DOMAIN t.sent :
        /\ t.sent[i].msg_type = "PrePrepare"
        /\ t.sent[i].view = view
        /\ t.sent[i].seq_num = seq_num
        /\ t.sent[i].block = block}

\* on_block_new takes block b as the block of the node's sequence number.
CurrentBlock(s, b) ==
    /\ ~s.panicked
    /\ b.block_num = s.seq_num
    /\ verify_consensus_seal(s, b).status # "Err"

----------------------------------------------------------------------------
(* src/src/timing.rs: Timeout with its clock.  A timeout is the record of  *)
(* its three fields; `now` is what Instant::now() returns at the call.     *)

\* The latest instant of the clock.
MaxTime == 4

\* Timeout::new
Timeout_new(duration, now) ==
    [state |-> "Inactive", duration |-> duration, start |-> now]

\* is_expired with `>=` in place of `>`.
Timeout_is_expired_mut(t, now) ==
    IF t.state = "Active" /\ now - t.start >= t.duration
    THEN [t EXCEPT !.state = "Expired"]
    ELSE t

\* Timeout::is_expired (check_expired in node.rs): the timeout after the call;
\* the call returns whether its state is Expired.
Timeout_is_expired(t, now) ==
    IF t.state = "Active" /\ now - t.start > t.duration
    THEN [t EXCEPT !.state = "Expired"]
    ELSE t

\* Timeout::start
Timeout_start(t, now) == [t EXCEPT !.state = "Active", !.start = now]

\* Timeout::stop
Timeout_stop(t, now) == [t EXCEPT !.state = "Inactive", !.start = now]

\* A node's timeout on its own: node[n] holds the timeout `t`, the clock `now`
\* and `armed`, the instant of the latest start() unless stop() came after it.
InitTimeout ==
    /\ env \in [name : {"timeout"}, id : StateNodes, duration : 0..2]
    /\ node = [n \in {env.id} |->
                 [t |-> Timeout_new(env.duration, 0), now |-> 0, armed |-> None]]
    /\ net = {}
    /\ last = [n |-> env.id, op |-> "new", result |-> FALSE]

\* Time passes.
Tick(n) ==
    /\ n \in DOMAIN node
    /\ node[n].now < MaxTime
    /\ node' = [node EXCEPT ![n].now = @ + 1]
    /\ last' = [n |-> n, op |-> "tick", result |-> FALSE]
    /\ UNCHANGED <<net, env>>

StartTimeout(n) ==
    /\ n \in DOMAIN node
    /\ node' = [node EXCEPT ![n].t = Timeout_start(@, node[n].now),
                            ![n].armed = Some(node[n].now)]
    /\ last' = [n |-> n, op |-> "start", result |-> FALSE]
    /\ UNCHANGED <<net, env>>

StopTimeout(n) ==
    /\ n \in DOMAIN node
    /\ node' = [node EXCEPT ![n].t = Timeout_stop(@, node[n].now),
                            ![n].armed = None]
    /\ last' = [n |-> n, op |-> "stop", result |-> FALSE]
    /\ UNCHANGED <<net, env>>

CheckExpired(n) ==
    /\ n \in DOMAIN node
    /\ node' = [node EXCEPT ![n].t = Timeout_is_expired(@, node[n].now)]
    /\ last' = [n |-> n, op |-> "is_expired",
                result |-> node'[n].t.state = "Expired"]
    /\ UNCHANGED <<net, env>>

NextTimeout ==
    \E n \in StateNodes :
        \/ Tick(n)
        \/ StartTimeout(n)
        \/ StopTimeout(n)
        \/ CheckExpired(n)

SpecTimeout == InitTimeout /\ [][NextTimeout]_vars

\* C25: a check of the timeout reports it expired exactly when start() has
\* been called, no stop() has been called since the latest start(), and more
\* than `duration` has passed since that start(): never while Inactive, and,
\* once reported expired, on every later check until start() or stop().
C25_Timeout ==
    [][\A n \in StateNodes :
         CheckExpired(n) =>
           LET armed == node[n].armed
               now == node[n].now
           IN  /\ last'.result =
                    (IsSome(armed) /\ now - armed[1] > env.duration)
               /\ (last.op = "is_expired" /\ last.result) => last'.result
               /\ node[n].t.state = "Inactive" => ~last'.result
               /\ last.op = "start" => ~last'.result]_vars

\* A timeout started again after time has passed, and reported expired more
\* than `duration` later.
C25_Witness ==
    /\ last.op = "is_expired"
    /\ last.result
    /\ node[last.n].armed # None
    /\ node[last.n].armed[1] > 0
    /\ node[last.n].now - node[last.n].armed[1] > env.duration
    /\ node[last.n].t.state = "Expired"
    /\ node[last.n].t.start = node[last.n].armed[1]

\* C26: a PrePrepare, Prepare or Commit handled by on_peer_message while the
\* node is in ViewChanging mode changes no phase, asks the host neither to
\* check nor to commit a block, and broadcasts nothing.
C26_ViewChangingIgnores ==
    [][last'.op = "on_peer_message" =>
       \A n \in DOMAIN node : \A m \in PeerMessages(node[n], env) :
          (/\ node[n].mode = "ViewChanging"
           /\ m.msg_type \in {"PrePrepare", "Prepare", "Commit"}
           /\ PeerMessageStep(n, m))
          => /\ node'[n].phase = node[n].phase
             /\ ~Called(node'[n], "check_blocks")
             /\ ~Called(node'[n], "commit_block")
             /\ node'[n].sent = <<>>]_vars

\* C27: after every on_block_commit(b) that acts, called by the host or by
\* catch-up (the pair of seq_num and b joins `committed`), the peers of the node are
\* the peers in the host's settings at block b: a changed set is adopted as
\* the new ordered list, f is recomputed from it and a view change is forced,
\* at the blocks where a periodic forced view change is due as well.
C27_MembershipFollowsChain ==
    [][\A n \in DOMAIN node :
         \A c \in node'[n].committed \ node[n].committed :
            LET peers == get_peers_from_settings(c[2])
            IN  /\ ToSet(node'[n].peer_ids) = ToSet(peers)
                /\ (ToSet(peers) # ToSet(node[n].peer_ids)
                    /\ ~node'[n].panicked)
                   => /\ node'[n].peer_ids = peers
                      /\ node'[n].f = fault_bound(peers)
                      /\ node'[n].view > node[n].view]_vars

\* C28 as stated: on_block_valid(id) with id the id of the working block in
\* phase Checking leaves the phase Committing and broadcasts one Commit for
\* (view, seq_num, working block); with no working block it returns
\* NoWorkingBlock, with another id NotReadyForMessage, the phase unchanged and
\* nothing broadcast in both cases.
C28_Original ==
    [][last'.op = "on_block_valid" =>
       \A n \in DOMAIN node : \A id \in BlockIds(env) :
          (Running(n) /\ node' = [node EXCEPT ![n] = on_block_valid(node[n], id)])
          => LET s == node[n]
                 t == node'[n]
             IN  IF ~IsSome(s.working_block)
                 THEN t.result = "NoWorkingBlock" /\ t.phase = s.phase /\ t.sent = <<>>
                 ELSE IF s.working_block[1].block_id # id
                 THEN t.result = "NotReadyForMessage" /\ t.phase = s.phase
                      /\ t.sent = <<>>
                 ELSE s.phase = "Checking" =>
                      /\ t.result = "Ok"
                      /\ t.phase = "Committing"
                      /\ Len(t.sent) = 1
                      /\ t.sent[1].msg_type = "Commit"
                      /\ t.sent[1].view = s.view
                      /\ t.sent[1].seq_num = s.seq_num
                      /\ t.sent[1].block = s.working_block[1]]_vars

\* C28: on_block_valid(id) with id the id of the working block in phase
\* Checking moves the phase to Committing and broadcasts one Commit for (view,
\* seq_num, working block); that Commit reaches the node itself, and when the
\* log then holds Commit messages of 2f + 1 signers for the block the node
\* calls commit_block and ends in phase Finished, otherwise it ends in phase
\* Committing.  With no working block it returns NoWorkingBlock, with another
\* id NotReadyForMessage, the phase unchanged and nothing broadcast.
C28_BlockValid ==
    [][last'.op = "on_block_valid" =>
       \A n \in DOMAIN node : \A id \in BlockIds(env) :
          (Running(n) /\ node' = [node EXCEPT ![n] = on_block_valid(node[n], id)])
          => LET s == node[n]
                 t == node'[n]
             IN  IF ~IsSome(s.working_block)
                 THEN t.result = "NoWorkingBlock" /\ t.phase = s.phase /\ t.sent = <<>>
                 ELSE IF s.working_block[1].block_id # id
                 THEN t.result = "NotReadyForMessage" /\ t.phase = s.phase
                      /\ t.sent = <<>>
                 ELSE s.phase = "Checking" =>
                      /\ t.result = "Ok"
                      /\ t.phases[1] = "Committing"
                      /\ Len(t.sent) = 1
                      /\ t.sent[1].msg_type = "Commit"
                      /\ t.sent[1].view = s.view
                      /\ t.sent[1].seq_num = s.seq_num
                      /\ t.sent[1].block = s.working_block[1]
                      /\ IF Cardinality(Signers(s, "Commit", s.view, s.seq_num, id)
                                          \cup {s.id}) >= 2 * s.f + 1
                         THEN t.phase = "Finished"
                              /\ Calls(t, "commit_block", id) # {}
                         ELSE t.phase = "Committing" /\ t.calls = <<>>]_vars

\* A BlockValid for the working block has found the Commit messages of two
\* peers in the log and has ended in phase Finished.
C28_Witness ==
    /\ last.op = "on_block_valid"
    /\ node[last.n].result = "Ok"
    /\ node[last.n].phases = <<"Committing", "Finished">>
    /\ Sent(node[last.n], "Commit")
    /\ Called(node[last.n], "commit_block")

C30_CommitEvidence ==
    [][\A n \in DOMAIN node :
         /\ \A c \in node'[n].commits \ node[n].commits :
               LET s == node[n]
                   t == node'[n]
                   b == c[2]
               IN  /\ c[1] = s.seq_num
                   /\ Calls(t, "commit_block", b) # {}
                   /\ \/ /\ last'.op \in {"on_peer_message", "on_block_valid"}
                         /\ \E i \in DOMAIN t.phases :
                               /\ (<<s.phase>> \o t.phases)[i] = "Committing"
                               /\ t.phases[i] = "Finished"
                         /\ \E pp \in t.messages :
                               /\ pp.msg_type = "PrePrepare"
                               /\ pp.seq_num = s.seq_num
                               /\ pp.block.block_id = b
                               /\ Cardinality(Signers(t, "Prepare", pp.view, s.seq_num, b)
                                                \ {pp.signer_id}) >= 2 * s.f
                               /\ Cardinality(Signers(t, "Commit", pp.view, s.seq_num, b))
                                     >= 2 * s.f + 1
                      \/ /\ last'.op = "on_block_new"
                         /\ \E blk \in env.blocks :
                               /\ BlockNewStep(n, blk)
                               /\ blk.block_num = s.seq_num + 1
                               /\ blk.previous_id = b
                               /\ IsSome(blk.payload)
                               /\ blk.payload[1].previous_id = b
                               /\ LET votes == blk.payload[1].votes
                                  IN  Cardinality(
                                        {votes[i].signer_id : i \in
                                           {j \in DOMAIN votes :
                                              /\ votes[j].block.block_id = b
                                              /\ votes[j].sig_ok
                                              /\ votes[j].sha_ok}}) >= 2 * s.f
         /\ last'.op = "on_peer_message" =>
               \A m \in PeerMessages(node[n], env) :
                  (/\ m.msg_type = "Commit"
                   /\ (m.seq_num # node[n].seq_num \/ node[n].phase # "Committing")
                   /\ PeerMessageStep(n, m))
                  => /\ node'[n].messages = node[n].messages \cup {m}
                     /\ node'[n].commits = node[n].commits
                     /\ node'[n].calls = <<>>
                     /\ node'[n].sent = <<>>
                     /\ node'[n].result = "Ok"
                     /\ node'[n].phase = node[n].phase
                     /\ node'[n].seq_num = node[n].seq_num
                     /\ node'[n].working_block = node[n].working_block]_vars

\* A Commit for sequence number 1 has reached a node at sequence number 2
\* after it committed block 10 by catch-up, and has been logged.
C30_Witness ==
    /\ last.op = "on_peer_message"
    /\ node[last.n].seq_num = 2
    /\ <<1, 10>> \in node[last.n].commits
    /\ Cardinality(Signers(node[last.n], "Commit", 0, 1, 10)) = 3
    /\ node[last.n].calls = <<>>

\* C31: the host's check_blocks is called only in the step that takes the
\* phase from Preparing to Checking, so a Prepare handled in phase
\* PrePreparing, Checking, Committing or Finished calls it for nothing and a
\* round calls it at most once.
C31_CheckBlocksOnce ==
    [][\A n \in DOMAIN node :
         Called(node'[n], "check_blocks")
         => LET phases == node'[n].phases
                before == <<node[n].phase>> \o phases
            IN  \E i \in DOMAIN phases :
                   before[i] = "Preparing" /\ phases[i] = "Checking"]_vars

\* C32: between events the role of a node is Primary iff the peer at index
\* view mod |peer_ids| of its peer list is the node itself, after a catch-up
\* that adopts the view of a seal and after a membership change as well.
C32_RoleMatchesView ==
    \A n \in DOMAIN node :
       ~node[n].panicked =>
          (node[n].role = "Primary") =
             (node[n].peer_ids[(node[n].view % Len(node[n].peer_ids)) + 1] = node[n].id)

\* C33: a node broadcasts a Commit for block b at (view, seq_num) only if its
\* log holds a PrePrepare for (view, seq_num, b) and Prepare messages for it of
\* 2f signers other than the PrePrepare's; and a BlockNew handled after the
\* node left PrePreparing does not change the working block.
C33_CommitIsPrepared ==
    [][\A n \in DOMAIN node :
         /\ \A i \in DOMAIN node'[n].sent :
               LET c == node'[n].sent[i]
               IN  c.msg_type = "Commit" =>
                      \E pp \in node'[n].messages :
                         /\ pp.msg_type = "PrePrepare"
                         /\ pp.view = c.view
                         /\ pp.seq_num = c.seq_num
                         /\ pp.block = c.block
                         /\ Cardinality(Signers(node'[n], "Prepare", c.view, c.seq_num,
                                                c.block.block_id) \ {pp.signer_id})
                               >= 2 * node[n].f
         /\ (/\ last'.op = "on_block_new"
             /\ node[n].phase # "PrePreparing"
             /\ node'[n].seq_num = node[n].seq_num
             /\ node'[n].view = node[n].view)
            => node'[n].working_block = node[n].working_block]_vars

\* C34: a node at seq_num s that has called commit_block(b) moves to seq_num
\* s + 1 when the host delivers on_block_commit(b), whatever events came
\* between the two.
C34_CommitAdvances ==
    [][last'.op = "on_block_commit" =>
       \A n \in DOMAIN node : \A id \in BlockIds(env) :
          (/\ <<node[n].seq_num, id>> \in node[n].commits
           /\ BlockCommitStep(n, id))
          => node'[n].seq_num = node[n].seq_num + 1]_vars

\* C35: in every seal that verify_consensus_seal has accepted for a node, the
\* signer named in each vote's Commit message is the identity whose key signed
\* the header of that vote, so the distinct voters counted are distinct key
\* holders.
C35_VoteProvenance ==
    \A n \in DOMAIN node : \A k \in DOMAIN node[n].seals :
       LET votes == node[n].seals[k].votes
       IN  /\ \A i \in DOMAIN votes : votes[i].key = votes[i].signer_id
           /\ Cardinality({votes[i].key : i \in DOMAIN votes}) >= 2 * node[n].f

----------------------------------------------------------------------------
(* A node that catches up and then publishes: the blocks of the chain reach *)
(* node 1 in an environment of Spec in which the peers do not speak, and the *)
(* engine's loop calls try_publish.                                         *)

InitRebuild == Init /\ env.name \in {"rotation", "catchup", "late"}

NextRebuild == \E n \in Nodes : OnBlockNew(n) \/ TryPublish(n)

SpecRebuild == InitRebuild /\ [][NextRebuild]_vars

\* C36: a block that a node publishes at seq_num s + 1 after it committed
\* block s by catch-up carries a seal for s that verify_consensus_seal of
\* another node with the same peers accepts: the Commit messages the seal is
\* built from have kept the header and the signature they were sent with.
C36_SealAfterCatchup ==
    \A b \in net :
       b.block_num >= 2 =>
          verify_consensus_seal(PbftState_new(2, 0, DefaultPeers, env.period), b).status
             = "Some"

----------------------------------------------------------------------------
(* A node in a network that is up: node 1 runs the program, its peers 0, 2 *)
(* and 3 are correct and never behind.  The primary's host publishes the    *)
(* blocks of the chain one after the other; with a block the BlockNew       *)
(* update, the primary's PrePrepare and the peers' Prepare and Commit are   *)
(* under way to the node.  Every update, message and answer of the host is  *)
(* delivered once, the messages of a peer in the order it sent them.  net   *)
(* holds what is under way: the BlockNew updates, a queue of messages for   *)
(* each peer, and the check_blocks and commit_block calls the host is to    *)
(* answer; its tick turns with every call of retry_backlog.                 *)

\* The number of blocks the hosts publish.
LiveBlocks == 2

\* The worlds a run of SpecLive is tried in: whether the node's
\* faulty-primary timeout is armed and may expire, and whether those of the
\* peers 2 and 3 expire while they wait for the last block, so that they
\* propose view 1 before they vote on that block.
Worlds ==
    {[name |-> "faultfree", period |-> 30, timers |-> FALSE, mutiny |-> FALSE],
     [name |-> "suspicion", period |-> 30, timers |-> TRUE, mutiny |-> FALSE],
     [name |-> "mutiny", period |-> 30, timers |-> FALSE, mutiny |-> TRUE]}

InitLive ==
    /\ env \in Worlds
    /\ node = [n \in Nodes |->
                  LET s == PbftState_new(n, 0, DefaultPeers, env.period)
                  IN  IF env.timers THEN timeout_start(s) ELSE s]
    /\ net = [blocks |-> 0, ids |-> {}, news |-> <<>>, msgs |-> [g \in {0, 2, 3} |-> <<>>],
              valid |-> {}, commit |-> {}, tick |-> 0]
    /\ last = [n |-> 1, op |-> "new"]

\* The event takes node n to state s and the network to rest; the node's host
\* will answer the check_blocks and commit_block calls of the event.
LiveEvent(n, s, rest) ==
    /\ node' = [node EXCEPT ![n] = begin(s)]
    /\ net' = [rest EXCEPT
          !.valid = @ \cup {c.id : c \in {x \in ToSet(s.calls) :
                                             x.call = "check_blocks"}},
          !.commit = @ \cup {c.id : c \in {x \in ToSet(s.calls) :
                                              x.call = "commit_block"}}]
    /\ UNCHANGED <<env, last>>

\* The primary's host publishes the next block of the chain.
LivePublish(n) ==
    LET k == net.blocks + 1
        b == pbft_block_from_block(ChainBlock(k, 0, 0))
        votes(g) == <<Message("Prepare", 0, k, g, b, g, None),
                      Message("Commit", 0, k, g, b, g, None)>>
        change(g) == IF env.mutiny /\ k = LiveBlocks /\ g # 0
                     THEN <<Message("ViewChange", 1, k - 1, g, DefaultBlock, g,
                                    Some(EmptySeal))>>
                     ELSE <<>>
    IN  /\ k <= LiveBlocks
        /\ net' = [net EXCEPT
              !.blocks = k,
              !.ids = @ \cup {b.block_id},
              !.news = Append(@, ChainBlock(k, 0, 0)),
              !.msgs = [g \in {0, 2, 3} |->
                           @[g] \o (IF g = 0
                                    THEN <<Message("PrePrepare", 0, k, 0, b, 0, None)>>
                                    ELSE <<>>) \o change(g) \o votes(g)]]
        /\ UNCHANGED <<node, env, last>>

LiveBlockNew(n) ==
    /\ net.news # <<>>
    /\ LiveEvent(n, on_block_new(node[n], Head(net.news)),
                 [net EXCEPT !.news = Tail(@)])

LivePeerMessage(n) ==
    \E g \in {0, 2, 3} :
        /\ net.msgs[g] # <<>>
        /\ LiveEvent(n, on_peer_message(begin(node[n]), Head(net.msgs[g])),
                     [net EXCEPT !.msgs[g] = Tail(@)])

LiveBlockValid(n) ==
    \E id \in net.valid :
        LiveEvent(n, on_block_valid(node[n], id), [net EXCEPT !.valid = @ \ {id}])

LiveBlockCommit(n) ==
    \E id \in net.commit :
        LiveEvent(n, on_block_commit(begin(node[n]), id),
                  [net EXCEPT !.commit = @ \ {id}])

LiveRetryBacklog(n) ==
    LiveEvent(n, retry_backlog(node[n]), [net EXCEPT !.tick = 1 - @])

\* The engine polls the timeout and proposes a view change once it has
\* expired.
LiveTimeoutExpired(n) ==
    /\ env.timers
    /\ node[n].faulty_primary_timeout = "Active"
    /\ LiveEvent(n, propose_view_change(timeout_is_expired(begin(node[n]), TRUE)), net)

NextLive ==
    \E n \in Nodes :
        \/ LivePublish(n)
        \/ LiveBlockNew(n)
        \/ LivePeerMessage(n)
        \/ LiveBlockValid(n)
        \/ LiveBlockCommit(n)
        \/ LiveRetryBacklog(n)
        \/ LiveTimeoutExpired(n)

\* The step of the network and the hosts that LiveBlockNew, LivePeerMessage,
\* LiveBlockValid and LiveBlockCommit are the node's side of: one thing under
\* way is handed over, whatever calls the node makes of it.
LiveDelivered ==
    LET taken ==
            {[net EXCEPT !.news = Tail(@)] : x \in {y \in {1} : net.news # <<>>}}
            \cup {[net EXCEPT !.msgs[g] = Tail(@)] :
                      g \in {h \in {0, 2, 3} : net.msgs[h] # <<>>}}
            \cup {[net EXCEPT !.valid = @ \ {id}] : id \in net.valid}
            \cup {[net EXCEPT !.commit = @ \ {id}] : id \in net.commit}
    IN  \E w \in taken, checks \in SUBSET net.ids, commits \in SUBSET net.ids :
            net' = [w EXCEPT !.valid = @ \cup checks, !.commit = @ \cup commits]

\* The step of the engine's loop that LiveRetryBacklog is the node's side of.
LiveRetried ==
    \E checks \in SUBSET net.ids, commits \in SUBSET net.ids :
        net' = [net EXCEPT !.tick = 1 - @, !.valid = @ \cup checks,
                           !.commit = @ \cup commits]

\* The node in a network that goes on: the hosts publish, the network and
\* the hosts deliver what is under way, and the engine's loop calls
\* retry_backlog again and again.  The timeout need not expire.
SpecLive ==
    /\ InitLive
    /\ [][NextLive]_vars
    /\ WF_net(\E n \in Nodes : LivePublish(n))
    /\ WF_net(LiveDelivered)
    /\ WF_net(LiveRetried)

\* C38: a node that enters ViewChanging mode eventually returns to Normal
\* mode.
C38_ViewChangeTerminates ==
    \A n \in Nodes :
        (node[n].mode = "ViewChanging") ~> (node[n].mode = "Normal")

\* C39: in the fault-free network every published block is eventually
\* committed by every node: a block published for seq_num s leads to every
\* node's seq_num being beyond s.
C39_Progress ==
    \A k \in 1..LiveBlocks :
        (env.name = "faultfree" /\ net.blocks >= k)
            ~> (\A n \in Nodes : node[n].seq_num > k)

====
